---------------------------- MODULE Spec2Model ----------------------------
(***************************************************************************)
(* Request-admission defences of the AURA faucet backend:                  *)
(*   - pkg/pow      ProofOfWork      (hash-puzzle challenges)              *)
(*   - pkg/captcha  CaptchaService   (one-time image challenges)           *)
(*   - pkg/abuse    AbuseDetector    (attempt trackers, blocks, scoring)   *)
(*   - pkg/ratelimit RateLimiter     (expiring counters per IP and address)*)
(*   - pkg/api      Handler          (RequestTokens), with main's wiring   *)
(*   - pkg/metrics  MetricsTracker   (counters, response times, rankings)  *)
(* Every exported method is one action: the methods hold the engine's      *)
(* mutex for their whole body.  Verify and Validate give the mutex up      *)
(* between their lookup and their delete: SpecPow and SpecCaptcha take     *)
(* them as called one after another, SpecVerifyRace and SpecValidateRace   *)
(* take them one locked section at a time.  time.Now() is the variable     *)
(* now, in seconds; a time.Duration is a number of seconds, a response     *)
(* time a number of nanoseconds.                                           *)
(*                                                                         *)
(* Specifications, one engine running in each:                             *)
(*   SpecPow      the proof-of-work engine                                 *)
(*   SpecAdaptive the difficulty controller on top of the engine           *)
(*   SpecCaptcha  the CAPTCHA service                                      *)
(*   SpecAbuse    the detector's caps: one IP, the clock moves             *)
(*   SpecBlocks   the detector's blocks: one IP, two addresses             *)
(*   SpecNet      the detector's subnet and private-range checks: many IPs *)
(*   SpecLimiter  the rate limiter and its store                           *)
(*   SpecHandler  concurrent token requests through the handler            *)
(*   SpecMetrics  the metrics tracker                                      *)
(*   SpecSeries   the tracker's response-time series, short and near full  *)
(*   SpecVerifyRace, SpecValidateRace  concurrent callers on one challenge *)
(*   SpecAbuseRace  requests in flight between CheckRequest, RecordAttempt *)
(*   SpecLocks    the mutexes of all engines under concurrent callers      *)
(*   SpecDetector the detector's trackers and blocks past a day, swept     *)
(*   SpecTrackers the detector's trackers about the end of an hour         *)
(*   SpecRisk     the detector's risk score and recommended delay          *)
(*   SpecSweeps   the expiry sweeps of both challenge stores, under        *)
(*                fairness of their tickers                                *)
(*   SpecHistory  the handler over the rows its sends leave                *)
(* Identifiers the engines generate are taken to be pairwise different.    *)
(***************************************************************************)
EXTENDS Integers, Sequences, FiniteSets, TLC

VARIABLES
    now,             \* time.Now(), seconds
    \* ---- pow.ProofOfWork
    challenges,      \* p.challenges : id -> Challenge
    difficulty,      \* p.difficulty
    nextChallenge,   \* number of challenge ids handed out so far
    powRes,          \* what the last call on the engine returned
    powHist,         \* history: the challenges handed to callers, and what
                     \* Verify has answered for each so far
    \* ---- pow.AdaptiveDifficulty
    adaptive,        \* the controller's fields
    tuned,           \* history: UpdateLoad set the engine's difficulty, and
                     \* no direct SetDifficulty came after it
    \* ---- captcha.CaptchaService / CaptchaStore
    captchas,        \* s.store.captchas : id -> CaptchaData
    options,         \* s.options
    nextCaptcha,     \* number of captcha ids handed out so far
    capRes,          \* what the last call on the service returned
    capHist,         \* history: the CAPTCHAs handed to callers, and what
                     \* Validate has answered for each so far
    \* ---- abuse.AbuseDetector
    ipAttempts,      \* ad.ipAttempts : ip -> AttemptTracker
    addressAttempts, \* ad.addressAttempts : address -> AttemptTracker
    blockedIPs,      \* ad.blockedIPs : ip -> expiry
    blockedAddrs,    \* ad.blockedAddrs : address -> expiry
    config,          \* ad.config
    adRes,           \* what the last call on the detector returned
    peers,           \* the IPs requests arrive from in this run
    cyc,             \* history: per IP, the CheckRequest+RecordAttempt
                     \* cycles its caller has made since the IP was new;
                     \* in SpecDetector the instants of its attempts, in
                     \* SpecTrackers the call made last
    capBlock,        \* history: per IP, the block a cap denial recorded
    \* ---- ratelimit.RateLimiter and its counter store
    counters,        \* the store: kind -> id -> [count, expiresAt]
    storeUp,         \* the store can be reached
    limits,          \* per_ip, per_address, window
    rlRes,           \* what the last call on the limiter returned
    incLog,          \* history: kind -> id -> the instants of the increments
                     \* that succeeded
    \* ---- api.Handler
    handler,         \* h.cfg, and which of h.rateLimiter and h.db are there
    reqs,            \* the RequestTokens calls: slot -> where the call is
    sent,            \* history: per call of RequestTokens its SendTokens
                     \* call, whether it succeeded and what the handler had
                     \* been told before it
    \* ---- metrics.MetricsTracker
    metricsTracker,  \* the tracker's fields
    mtRes,           \* what the last call on the tracker returned
    mtHist,          \* history: the Record calls since the last Reset
    \* ---- goroutines calling the engines concurrently
    procs,           \* goroutine -> the call it is in, where, and its locals;
                     \* in SpecDetector the sweeper, slept or due a round
    locks            \* mutex -> the writer that holds or awaits it, the readers

powVars == <<challenges, difficulty, nextChallenge, powRes, powHist>>
capVars == <<captchas, options, nextCaptcha, capRes, capHist>>
adVars == <<ipAttempts, addressAttempts, blockedIPs, blockedAddrs, config, adRes>>
obsVars == <<peers, cyc, capBlock>>
tuneVars == <<adaptive, tuned>>
rlVars == <<counters, storeUp, limits, rlRes, incLog>>
apiVars == <<handler, reqs, sent>>
mtVars == <<metricsTracker, mtRes, mtHist>>
runVars == <<procs, locks>>
sideVars == <<mtVars, runVars>>
notPow == <<capVars, adVars, obsVars, adaptive, rlVars, apiVars, sideVars>>
notCap == <<powVars, adVars, obsVars, tuneVars, rlVars, apiVars, sideVars>>
notAbuse == <<powVars, capVars, peers, tuneVars, rlVars, apiVars, mtVars, locks>>
notWeb == <<powVars, capVars, adVars, obsVars, tuneVars, sideVars>>
vars == <<now, challenges, difficulty, nextChallenge, powRes, powHist,
          captchas, options, nextCaptcha, capRes, capHist,
          ipAttempts, addressAttempts, blockedIPs, blockedAddrs, config, adRes,
          peers, cyc, capBlock, adaptive, tuned,
          counters, storeUp, limits, rlRes, incLog, handler, reqs, sent,
          metricsTracker, mtRes, mtHist, procs, locks>>

-----------------------------------------------------------------------------
(* Bounds of the model *)

\* challenges issued in one behaviour
MaxChallenges == 2
\* CAPTCHAs generated in one behaviour
MaxCaptchas == 2
\* attempts recorded on one IP in one behaviour
MaxRecords == 3
\* the clock of the proof-of-work behaviours stops here
PowHorizon == 601
\* the clock of the CAPTCHA behaviours stops this long after one TTL
CaptchaSlack == 1
\* hexadecimal digits of the digest that stands for SHA-256
DigestHexLen == 4
\* increments the limiter is asked for in one behaviour
MaxIncrements == 3
\* RequestTokens calls in one behaviour
MaxRequests == 2
\* Record calls on the tracker between two Resets
MaxRecorded == 3
\* samples of a tracker that has recorded a few requests already
ShortSeries == 20
\* goroutines calling an engine at the same time
MaxCallers == 2
\* attempts recorded for a peer in a run of more than a day
MaxSwept == 2
\* attempts recorded for a requester whose risk is scored
MaxScored == 4
\* rounds of the five-minute sweeps the clock runs through
MaxSweepRounds == 4

-----------------------------------------------------------------------------
(* Time *)

Second == 1
Minute == 60 * Second
Hour == 60 * Minute

\* t.After(u), t.Before(u), t.Add(d)
After(t, u) == t > u
Before(t, u) == t < u
Add(t, d) == t + d

-----------------------------------------------------------------------------
(* Strings are sequences of character codes *)

\* the byte of a character
Ord(c) == CASE c = "0" -> 48
            [] c = "B" -> 66
            [] c = "a" -> 97

\* strings.Repeat(s, count)
RECURSIVE Repeat(_, _)
Repeat(s, count) == IF count <= 0 THEN <<>> ELSE s \o Repeat(s, count - 1)

\* strings.HasPrefix(s, prefix)
HasPrefix(s, prefix) ==
    /\ Len(s) >= Len(prefix)
    /\ SubSeq(s, 1, Len(prefix)) = prefix

-----------------------------------------------------------------------------
(* pkg/captcha : CAPTCHA service and store *)

\* characters a solution is drawn from, by difficulty tier (a sample of each
\* of generateSolution's alphabets)
Charset(tier) == IF tier = "hard" THEN {"A", "a"} ELSE {"A", "B"}

\* all strings of exactly n characters of the set
RECURSIVE StringsOver(_, _)
StringsOver(chars, n) ==
    IF n = 0 THEN {<<>>}
    ELSE {<<c>> \o t : c \in chars, t \in StringsOver(chars, n - 1)}

\* unicode.ToUpper of a character, strings.ToUpper of a string
UpperChar(c) == IF c = "a" THEN "A" ELSE IF c = "b" THEN "B" ELSE c
ToUpper(str) == [i \in 1 .. Len(str) |-> UpperChar(str[i])]

\* options handed to NewCaptchaService; a zero value asks for the default
RawOptions == [Length : {2}, TTL : {0, Minute}, Difficulty : {"", "hard"}]

NewCaptchaService(o) ==
    [Length |-> IF o.Length = 0 THEN 6 ELSE o.Length,
     TTL |-> IF o.TTL = 0 THEN 5 * Minute ELSE o.TTL,
     Difficulty |-> IF o.Difficulty = "" THEN "medium" ELSE o.Difficulty]

\* answers a client may send to Validate
Answers == {<<"A", "A">>, <<"A", "a">>, <<"A", "B">>, <<"A">>}

NoCapRes == [op |-> "none", id |-> 0, solution |-> <<>>, valid |-> FALSE]

CapIDs == 0 .. MaxCaptchas

\* generateRandomString(16): the ids of one service are taken to be pairwise
\* different and are numbered 1, 2, ...
generateRandomString == nextCaptcha + 1

\* generateSolution(): options.Length characters of the tier's alphabet
generateSolution == StringsOver(Charset(options.Difficulty), options.Length)

\* CaptchaStore.Set, CaptchaStore.Delete
StoreSet(captcha) ==
    [id \in DOMAIN captchas \cup {captcha.ID} |->
        IF id = captcha.ID THEN captcha ELSE captchas[id]]
StoreDelete(id) == [i \in DOMAIN captchas \ {id} |-> captchas[i]]

\* the expiry Generate gives a CAPTCHA created at time t
CaptchaExpiry(t) == Add(t, options.TTL)

Generate ==
    /\ nextCaptcha < MaxCaptchas
    /\ \E solution \in generateSolution :
         LET captcha == [ID |-> generateRandomString,
                         Solution |-> solution,
                         CreatedAt |-> now,
                         ExpiresAt |-> CaptchaExpiry(now)]
         IN  /\ captchas' = StoreSet(captcha)
             /\ nextCaptcha' = captcha.ID
             /\ capRes' = [op |-> "Generate", id |-> captcha.ID,
                           solution |-> solution, valid |-> TRUE]
             /\ capHist' = [id \in DOMAIN capHist \cup {captcha.ID} |->
                              IF id = captcha.ID
                              THEN [Solution |-> solution, fate |-> "open",
                                    good |-> FALSE]
                              ELSE capHist[id]]
    /\ UNCHANGED <<now, options, notCap>>

\* the comparison of Validate (line 179)
EqualFold(stored, solution) == ToUpper(stored) = ToUpper(solution)
SolutionMatches(stored, solution) == stored = solution

\* whether Validate deletes the entry it looked at: on expiry (line 174) and
\* after the comparison (line 182)
EvictUnexpired(expired, valid) == ~expired
ValidateEvicts(expired, valid) == TRUE

\* Validate(id, solution), called while no other call is in progress
Validate(id, solution) ==
    /\ IF id \notin DOMAIN captchas
       THEN /\ capRes' = [op |-> "Validate", id |-> id, solution |-> solution,
                          valid |-> FALSE]
            /\ UNCHANGED <<captchas, capHist>>
       ELSE LET captcha == captchas[id]
                expired == After(now, captcha.ExpiresAt)
                valid == ~expired /\ SolutionMatches(captcha.Solution, solution)
            IN  /\ captchas' = IF ValidateEvicts(expired, valid)
                               THEN StoreDelete(id) ELSE captchas
                /\ capRes' = [op |-> "Validate", id |-> id, solution |-> solution,
                              valid |-> valid]
                /\ capHist' = [capHist EXCEPT ![id] =
                                 [Solution |-> @.Solution,
                                  fate |-> IF expired THEN "expired"
                                           ELSE IF valid THEN "passed"
                                           ELSE "failed",
                                  good |-> solution = @.Solution]]
    /\ UNCHANGED <<now, options, nextCaptcha, notCap>>

\* one round of CaptchaStore.cleanup, the 5-minute sweep
CapCleanup ==
    /\ captchas' = [id \in {i \in DOMAIN captchas :
                              ~After(now, captchas[i].ExpiresAt)} |-> captchas[id]]
    /\ capRes' = NoCapRes
    /\ UNCHANGED <<now, options, nextCaptcha, capHist, notCap>>

\* the clock moves on, to the end of a TTL or just past it
CapTick ==
    \E d \in {options.TTL, options.TTL + Second} :
        /\ now + d <= options.TTL + CaptchaSlack
        /\ now' = now + d
        /\ capRes' = NoCapRes
        /\ UNCHANGED <<captchas, options, nextCaptcha, capHist, notCap>>

\* the service while another engine runs
CapInitIdle ==
    /\ captchas = << >>
    /\ options = NewCaptchaService([Length |-> 0, TTL |-> 0, Difficulty |-> ""])
    /\ nextCaptcha = 0
    /\ capRes = NoCapRes
    /\ capHist = << >>

CapInit ==
    /\ captchas = << >>
    /\ options \in {NewCaptchaService(o) : o \in RawOptions}
    /\ nextCaptcha = 0
    /\ capRes = NoCapRes
    /\ capHist = << >>

-----------------------------------------------------------------------------
(* pkg/pow : proof of work *)

\* difficulties handed to NewProofOfWork (0 asks for the default) and to
\* SetDifficulty
InitDifficulties == {0, 1}
Difficulties == {1, 4}

\* generateNonce(): a random string; one value stands for all
Nonces == {<<Ord("a"), Ord("B")>>}

\* "%d" of a non-negative integer
RECURSIVE FormatInt(_)
FormatInt(n) == IF n < 10 THEN <<Ord("0") + n>>
                ELSE FormatInt(n \div 10) \o <<Ord("0") + (n % 10)>>

\* candidate solutions a client may send: decimal strings, as the reference
\* solver produces them.  With the nonce above their digests start with
\* no, one and four zero digits.
Candidates == {FormatInt(n) : n \in {0, 2200, 148650}}

RECURSIVE Pow16(_)
Pow16(n) == IF n = 0 THEN 1 ELSE 16 * Pow16(n - 1)

\* The digest of a byte string.  SHA-256 is replaced by a multiplicative
\* hash of the same bytes, DigestHexLen hexadecimal digits wide:
\* deterministic, sensitive to every byte and to their order.
RECURSIVE Digest(_, _)
Digest(acc, data) ==
    IF data = <<>> THEN acc
    ELSE Digest((acc * 33 + Head(data)) % Pow16(DigestHexLen), Tail(data))

\* hex.EncodeToString: the digits of the digest, most significant first
RECURSIVE EncodeToString(_, _)
EncodeToString(n, digits) ==
    IF digits = 0 THEN <<>>
    ELSE EncodeToString(n \div 16, digits - 1) \o <<n % 16>>

\* computeHash(nonce, solution): hex digest of nonce + solution
computeHash(nonce, solution) ==
    LET data == nonce \o solution
    IN  EncodeToString(Digest(5381, data), DigestHexLen)

\* verifyHash(hash, difficulty): hash starts with `difficulty` zero digits
verifyHash(hash, diff) ==
    LET prefix == Repeat(<<0>>, diff)
    IN  HasPrefix(hash, prefix)

\* NewProofOfWork(difficulty): the engine's difficulty after construction
NewProofOfWork(d) == IF d = 0 THEN 4 ELSE d

\* validity window of a challenge: 10 * time.Minute
ChallengeTTL == 10 * Minute

NoPowRes == [op |-> "none", id |-> 0, solution |-> <<>>, valid |-> FALSE, err |-> ""]

PowIDs == 0 .. MaxChallenges

\* generateChallengeID(): "pow_<UnixNano>_<8 random characters>"; the ids of
\* one engine are taken to be pairwise different and are numbered 1, 2, ...
generateChallengeID == nextChallenge + 1

GenerateChallenge(nonce) ==
    /\ nextChallenge < MaxChallenges
    /\ LET challenge == [ID |-> generateChallengeID,
                         Nonce |-> nonce,
                         Difficulty |-> difficulty,
                         CreatedAt |-> now,
                         ExpiresAt |-> Add(now, ChallengeTTL)]
       IN  /\ challenges' = [id \in DOMAIN challenges \cup {challenge.ID} |->
                               IF id = challenge.ID THEN challenge ELSE challenges[id]]
           /\ nextChallenge' = challenge.ID
           /\ powRes' = [op |-> "GenerateChallenge", id |-> challenge.ID,
                         solution |-> <<>>, valid |-> TRUE, err |-> ""]
           /\ powHist' = [id \in DOMAIN powHist \cup {challenge.ID} |->
                            IF id = challenge.ID
                            THEN [Nonce |-> challenge.Nonce,
                                  Difficulty |-> challenge.Difficulty,
                                  failed |-> FALSE, fate |-> "open"]
                            ELSE powHist[id]]
    /\ UNCHANGED <<now, difficulty, notPow>>

\* delete(p.challenges, id)
DeleteChallenge(id) == [i \in DOMAIN challenges \ {id} |-> challenges[i]]

\* Whether Verify deletes the challenge it looked at: on expiry (line 98) and
\* on a valid solution (line 110)
EvictOnlyExpired(expired, valid) == expired
EvictOnlySolved(expired, valid) == valid
EvictEveryTime(expired, valid) == TRUE
VerifyEvicts(expired, valid) == expired \/ valid

\* Verify(challengeID, solution), called while no other call is in progress
Verify(challengeID, solution) ==
    /\ IF challengeID \notin DOMAIN challenges
       THEN /\ powRes' = [op |-> "Verify", id |-> challengeID, solution |-> solution,
                          valid |-> FALSE, err |-> "challenge not found"]
            /\ UNCHANGED <<challenges, powHist>>
       ELSE LET challenge == challenges[challengeID]
                expired == After(now, challenge.ExpiresAt)
                hash == computeHash(challenge.Nonce, solution)
                valid == ~expired /\ verifyHash(hash, challenge.Difficulty)
            IN  /\ challenges' = IF VerifyEvicts(expired, valid)
                                 THEN DeleteChallenge(challengeID)
                                 ELSE challenges
                /\ powRes' = [op |-> "Verify", id |-> challengeID,
                              solution |-> solution, valid |-> valid,
                              err |-> IF expired THEN "challenge expired" ELSE ""]
                /\ powHist' = [powHist EXCEPT ![challengeID] =
                                 [Nonce |-> @.Nonce, Difficulty |-> @.Difficulty,
                                  failed |-> @.failed \/ (~expired /\ ~valid),
                                  fate |-> IF expired THEN "expired"
                                           ELSE IF valid THEN "solved" ELSE @.fate]]
    /\ UNCHANGED <<now, difficulty, nextChallenge, notPow>>

GetChallenge(challengeID) ==
    /\ powRes' = IF challengeID \notin DOMAIN challenges
                 THEN [op |-> "GetChallenge", id |-> challengeID, solution |-> <<>>,
                       valid |-> FALSE, err |-> "challenge not found"]
                 ELSE [op |-> "GetChallenge", id |-> challengeID, solution |-> <<>>,
                       valid |-> TRUE, err |-> ""]
    /\ UNCHANGED <<now, challenges, difficulty, nextChallenge, powHist, notPow>>

SetDifficultyEverywhere(d) ==
    /\ difficulty' = d
    /\ challenges' = [id \in DOMAIN challenges |->
                        [challenges[id] EXCEPT !.Difficulty = d]]
    /\ powRes' = NoPowRes
    /\ UNCHANGED <<now, nextChallenge, powHist, notPow>>

SetDifficulty(d) ==
    /\ difficulty' = d
    /\ powRes' = NoPowRes
    /\ UNCHANGED <<now, challenges, nextChallenge, powHist, notPow>>

\* one round of ProofOfWork.cleanup, the 5-minute sweep
PowCleanupOfOlder ==
    /\ challenges' = [id \in {i \in DOMAIN challenges :
                                ~After(now, challenges[i].CreatedAt)} |-> challenges[id]]
    /\ powRes' = NoPowRes
    /\ UNCHANGED <<now, difficulty, nextChallenge, powHist, notPow>>

PowCleanup ==
    /\ challenges' = [id \in {i \in DOMAIN challenges :
                                ~After(now, challenges[i].ExpiresAt)} |-> challenges[id]]
    /\ powRes' = NoPowRes
    /\ UNCHANGED <<now, difficulty, nextChallenge, powHist, notPow>>

\* the clock moves on
PowSteps == {ChallengeTTL, ChallengeTTL + Second}

PowTick ==
    \E d \in PowSteps :
        /\ now + d <= PowHorizon
        /\ now' = now + d
        /\ powRes' = NoPowRes
        /\ UNCHANGED <<challenges, difficulty, nextChallenge, powHist, notPow>>

-----------------------------------------------------------------------------
(* pkg/pow : the adaptive difficulty controller *)

\* NewAdaptiveDifficulty(pow, baseDifficulty)
NewAdaptiveDifficulty(baseDifficulty) ==
    [baselineLoad |-> 50, currentLoad |-> 50,
     baseDifficulty |-> baseDifficulty,
     maxDifficulty |-> baseDifficulty + 2,
     minDifficulty |-> baseDifficulty - 1]

\* load > baselineLoad*1.5, load > baselineLoad*1.2, load < baselineLoad*0.5;
\* the products are exact in float64 for the baseline of 50 (75, 60, 25)
AtLeastHighLoad(load) == 10 * load >= adaptive.baselineLoad * 15
HighLoad(load) == 10 * load > adaptive.baselineLoad * 15
ModerateLoad(load) == 10 * load > adaptive.baselineLoad * 12
LowLoad(load) == 10 * load < adaptive.baselineLoad * 5

\* the difficulty UpdateLoad picks for the load, before clamping
SteepDifficulty(load) ==
    IF HighLoad(load) THEN adaptive.baseDifficulty + 3
    ELSE IF ModerateLoad(load) THEN adaptive.baseDifficulty + 1
    ELSE IF LowLoad(load) THEN adaptive.baseDifficulty - 2
    ELSE adaptive.baseDifficulty
LoadDifficulty(load) ==
    IF HighLoad(load) THEN adaptive.baseDifficulty + 2
    ELSE IF ModerateLoad(load) THEN adaptive.baseDifficulty + 1
    ELSE IF LowLoad(load) THEN adaptive.baseDifficulty - 1
    ELSE adaptive.baseDifficulty

\* the clamp to [minDifficulty, maxDifficulty]
Clamp(d) ==
    LET capped == IF d > adaptive.maxDifficulty THEN adaptive.maxDifficulty ELSE d
    IN  IF capped < adaptive.minDifficulty THEN adaptive.minDifficulty ELSE capped

\* UpdateLoad(load), SetDifficulty included
UpdateLoadSteep(load) ==
    /\ adaptive' = [adaptive EXCEPT !.currentLoad = load]
    /\ difficulty' = SteepDifficulty(load)
    /\ powRes' = NoPowRes
    /\ UNCHANGED <<now, challenges, nextChallenge, powHist, capVars, adVars, obsVars,
                   rlVars, apiVars, sideVars>>

UpdateLoad(load) ==
    /\ adaptive' = [adaptive EXCEPT !.currentLoad = load]
    /\ difficulty' = Clamp(LoadDifficulty(load))
    /\ powRes' = NoPowRes
    /\ UNCHANGED <<now, challenges, nextChallenge, powHist, capVars, adVars, obsVars,
                   rlVars, apiVars, sideVars>>

\* GetCurrentDifficulty()
GetCurrentDifficulty == difficulty

-----------------------------------------------------------------------------
(* net : the parts of package net that the abuse detector uses.  An IP is   *)
(* a sequence of 4 or 16 bytes; the nil IP is the empty sequence.  The text *)
(* of an address is a record that says how it is written:                   *)
(*   dotted  "a.b.c.d"          mapped  "::ffff:a.b.c.d"                    *)
(*   colon   sixteen bytes written in IPv6 notation     bad  anything else  *)

Dotted(a, b, c, d) == [form |-> "dotted", b |-> <<a, b, c, d>>]
Mapped(a, b, c, d) == [form |-> "mapped", b |-> <<a, b, c, d>>]
Colon(bytes) == [form |-> "colon", b |-> bytes]
Bad == [form |-> "bad", b |-> << >>]

NilIP == <<>>
NilNet == [IP |-> <<>>, Mask |-> <<>>]

v4InV6Prefix == <<0, 0, 0, 0, 0, 0, 0, 0, 0, 0, 255, 255>>

\* net.ParseIP(s): always the 16-byte form, nil when s is no address
ParseIP(s) ==
    CASE s.form \in {"dotted", "mapped"} -> v4InV6Prefix \o s.b
      [] s.form = "colon" -> s.b
      [] OTHER -> NilIP

\* IP.To4(): the 4-byte form of an IPv4 address, nil for any other
To4(ip) ==
    IF Len(ip) = 4 THEN ip
    ELSE IF Len(ip) = 16 /\ SubSeq(ip, 1, 12) = v4InV6Prefix THEN SubSeq(ip, 13, 16)
    ELSE NilIP

RECURSIVE Pow2(_)
Pow2(n) == IF n = 0 THEN 1 ELSE 2 * Pow2(n - 1)

\* a & b on bytes
RECURSIVE BitAnd(_, _, _)
BitAnd(a, b, bits) ==
    IF bits = 0 THEN 0
    ELSE 2 * BitAnd(a \div 2, b \div 2, bits - 1) + (a % 2) * (b % 2)

AndByte(a, b) == IF b = 255 THEN a ELSE IF b = 0 THEN 0 ELSE BitAnd(a, b, 8)

AndBytes(ip, mask) == [i \in 1 .. Len(ip) |-> AndByte(ip[i], mask[i])]

\* net.CIDRMask(ones, bits)
CIDRMask(ones, bits) ==
    [i \in 1 .. (bits \div 8) |->
        LET n == ones - 8 * (i - 1)
        IN  IF n >= 8 THEN 255 ELSE IF n <= 0 THEN 0 ELSE 256 - Pow2(8 - n)]

\* IP.Mask(mask)
MaskIP(ip0, mask0) ==
    LET mask == IF Len(mask0) = 16 /\ Len(ip0) = 4
                   /\ \A i \in 1 .. 12 : mask0[i] = 255
                THEN SubSeq(mask0, 13, 16) ELSE mask0
        ip == IF Len(mask) = 4 /\ Len(ip0) = 16 /\ SubSeq(ip0, 1, 12) = v4InV6Prefix
              THEN SubSeq(ip0, 13, 16) ELSE ip0
    IN  IF Len(ip) # Len(mask) THEN NilIP
        ELSE AndBytes(ip, mask)

\* net.ParseCIDR(s + "/" + ones): the network.  The width of the mask
\* follows the notation of s: 32 bits for a dotted address, 128 for one
\* written with colons.
ParseCIDR(s, ones) ==
    LET bitLen == IF s.form = "dotted" THEN 32 ELSE 128
    IN  IF s.form = "bad" \/ ones < 0 \/ ones > bitLen THEN NilNet
        ELSE LET m == CIDRMask(ones, bitLen)
             IN  [IP |-> MaskIP(ParseIP(s), m), Mask |-> m]

\* networkNumberAndMask(n)
networkNumberAndMask(n) ==
    LET ip4 == To4(n.IP)
        ip == IF ip4 # NilIP THEN ip4 ELSE n.IP
    IN  IF ip4 = NilIP /\ Len(ip) # 16 THEN NilNet
        ELSE IF Len(n.Mask) = 4
             THEN IF Len(ip) # 4 THEN NilNet ELSE [IP |-> ip, Mask |-> n.Mask]
        ELSE IF Len(n.Mask) = 16
             THEN [IP |-> ip,
                   Mask |-> IF Len(ip) = 4 THEN SubSeq(n.Mask, 13, 16) ELSE n.Mask]
        ELSE NilNet

\* IPNet.Contains(ip)
SameNumber(nm, ip) ==
    /\ Len(ip) = Len(nm.IP)
    /\ AndBytes(nm.IP, nm.Mask) = AndBytes(ip, nm.Mask)

Contains(n, ip) ==
    SameNumber(networkNumberAndMask(n), IF To4(ip) # NilIP THEN To4(ip) ELSE ip)

-----------------------------------------------------------------------------
(* pkg/abuse : abuse detector *)

Day == 24 * Hour

\* time.Time{}, the LastAttempt of a tracker no attempt was recorded on
ZeroTime == 0 - 1
\* a nil *time.Time
NilTime == 0 - 2

\* t.Sub(u); the distance to the zero time saturates at the largest Duration
Sub(t, u) == IF u = ZeroTime THEN 366 * Day ELSE t - u

\* NewAbuseDetector(config): zero fields take their defaults
NewAbuseDetector(c) ==
    [MaxAttemptsPerHour |-> IF c.MaxAttemptsPerHour = 0 THEN 10
                            ELSE c.MaxAttemptsPerHour,
     MaxAttemptsPerDay |-> IF c.MaxAttemptsPerDay = 0 THEN 50
                           ELSE c.MaxAttemptsPerDay,
     BlockDuration |-> IF c.BlockDuration = 0 THEN 24 * Hour ELSE c.BlockDuration,
     SubnetCheckEnabled |-> c.SubnetCheckEnabled,
     VPNDetectionEnabled |-> c.VPNDetectionEnabled,
     SuspiciousThreshold |-> IF c.SuspiciousThreshold = 0 THEN 5
                             ELSE c.SuspiciousThreshold]

NoAdRes == [op |-> "none", ip |-> Bad, address |-> "", Allowed |-> FALSE,
            Reason |-> "", RiskScore |-> 0, BlockedUntil |-> NilTime,
            RecommendedDelay |-> 0]

\* a map with one key set, a map with one key deleted
RemoveNothing(m, key) == m
Put(m, key, value) == [k \in DOMAIN m \cup {key} |-> IF k = key THEN value ELSE m[k]]
Remove(m, key) == [k \in DOMAIN m \ {key} |-> m[k]]

\* getOrCreateTracker(trackers, key): the map afterwards
NewTracker == [Count |-> 0, FirstAttempt |-> now, LastAttempt |-> ZeroTime,
               SuccessfulCount |-> 0, FailedCount |-> 0, Addresses |-> << >>]
createTracker(trackers, key) == Put(trackers, key, NewTracker)
getOrCreateTracker(trackers, key) ==
    IF key \in DOMAIN trackers THEN trackers ELSE Put(trackers, key, NewTracker)

\* the key has an entry whose expiry is still ahead (lines 89-90, 101-102)
ActiveBlock(blocked, key) == key \in DOMAIN blocked /\ Before(now, blocked[key])

\* which block, if any, refuses the request (lines 88-109)
AddressBlockFirst(ipBlocked, addrBlocked) ==
    IF addrBlocked THEN "address" ELSE IF ipBlocked THEN "ip" ELSE "none"
BlockDenial(ipBlocked, addrBlocked) ==
    IF ipBlocked THEN "ip" ELSE IF addrBlocked THEN "address" ELSE "none"

\* calculateRiskScore(tracker, ip, address)
calculateRiskScoreFromThreshold(tracker) ==
    (IF tracker.Count >= config.SuspiciousThreshold THEN 20 ELSE 0)
    + (IF tracker.FailedCount > tracker.SuccessfulCount * 2 THEN 15 ELSE 0)
    + (IF Cardinality(DOMAIN tracker.Addresses) > 3
       THEN 10 * (Cardinality(DOMAIN tracker.Addresses) - 3) ELSE 0)
    + (IF Sub(now, tracker.LastAttempt) < 1 * Minute /\ tracker.Count > 3
       THEN 25 ELSE 0)

calculateRiskScore(tracker) ==
    (IF tracker.Count > config.SuspiciousThreshold THEN 20 ELSE 0)
    + (IF tracker.FailedCount > tracker.SuccessfulCount * 2 THEN 15 ELSE 0)
    + (IF Cardinality(DOMAIN tracker.Addresses) > 3
       THEN 10 * (Cardinality(DOMAIN tracker.Addresses) - 3) ELSE 0)
    + (IF Sub(now, tracker.LastAttempt) < 1 * Minute /\ tracker.Count > 3
       THEN 25 ELSE 0)

\* the hourly cap (line 120)
HourlyCapPassed(tracker) == tracker.Count > config.MaxAttemptsPerHour
HourlyCapMet(tracker) == tracker.Count = config.MaxAttemptsPerHour
HourlyCapReached(tracker) == tracker.Count >= config.MaxAttemptsPerHour

\* blockIP(ip): the blocked IPs afterwards
blockIPForAnHour(blocked, ip) == Put(blocked, ip, Add(now, Hour))
blockIP(blocked, ip) == Put(blocked, ip, Add(now, config.BlockDuration))

\* checkSubnetAbuse(ip), with the trackers as they are at the call
checkSubnetAbuse(ip, attempts) ==
    /\ ParseIP(ip) # NilIP
    /\ \E subnet \in {IF To4(ParseIP(ip)) # NilIP THEN ParseCIDR(ip, 24)
                       ELSE ParseCIDR(ip, 64)} :
         /\ subnet # NilNet
         /\ \E nm \in {networkNumberAndMask(subnet)} :
              Cardinality({trackedIP \in DOMAIN attempts :
                             /\ ParseIP(trackedIP) # NilIP
                             /\ SameNumber(nm, IF To4(ParseIP(trackedIP)) # NilIP
                                               THEN To4(ParseIP(trackedIP))
                                               ELSE ParseIP(trackedIP))}) > 5

\* isLikelyVPN(ip)
narrowVPNRanges == {ParseCIDR(Dotted(10, 0, 0, 0), 8),
                    ParseCIDR(Dotted(172, 16, 0, 0), 16),
                    ParseCIDR(Dotted(192, 168, 0, 0), 16)}
commonVPNRanges == {ParseCIDR(Dotted(10, 0, 0, 0), 8),
                    ParseCIDR(Dotted(172, 16, 0, 0), 12),
                    ParseCIDR(Dotted(192, 168, 0, 0), 16)}
isLikelyVPN(ip) ==
    LET parsedIP == ParseIP(ip)
    IN  /\ parsedIP # NilIP
        /\ \E subnet \in commonVPNRanges : Contains(subnet, parsedIP)

Denied(ip, address, reason, score, until) ==
    [op |-> "CheckRequest", ip |-> ip, address |-> address, Allowed |-> FALSE,
     Reason |-> reason, RiskScore |-> score, BlockedUntil |-> until,
     RecommendedDelay |-> 0]

CheckTrackedPastTheHour(ip, address, blocked) ==
    LET attempts0 == getOrCreateTracker(ipAttempts, ip)
        ipTracker == attempts0[ip]
        score == calculateRiskScore(ipTracker)
        inWindow == Sub(now, ipTracker.FirstAttempt) <= Hour
    IN  IF inWindow /\ HourlyCapReached(ipTracker)
        THEN /\ adRes' = Denied(ip, address,
                            "Too many requests from this IP (hourly limit exceeded)",
                            score, NilTime)
             /\ ipAttempts' = attempts0
             /\ blockedIPs' = blockIP(blocked, ip)
        ELSE
        LET tracker == IF inWindow THEN ipTracker
                       ELSE [ipTracker EXCEPT !.Count = 0, !.FirstAttempt = now]
            attempts == Put(attempts0, ip, tracker)
        IN  /\ ipAttempts' = attempts
            /\ IF tracker.SuccessfulCount + tracker.FailedCount
                    >= config.MaxAttemptsPerDay
               THEN /\ adRes' = Denied(ip, address, "Daily request limit exceeded",
                                       score, NilTime)
                    /\ blockedIPs' = blockIP(blocked, ip)
               ELSE
               /\ blockedIPs' = blocked
               /\ IF config.SubnetCheckEnabled /\ checkSubnetAbuse(ip, attempts)
                  THEN adRes' = Denied(ip, address,
                                       "Multiple requests detected from your subnet",
                                       score + 30, NilTime)
                  ELSE
                  LET vpn == config.VPNDetectionEnabled /\ isLikelyVPN(ip)
                      many == Cardinality(DOMAIN tracker.Addresses)
                                > config.SuspiciousThreshold
                      score1 == score + (IF vpn THEN 20 ELSE 0)
                      score2 == score1 + (IF many THEN 25 ELSE 0)
                  IN  adRes' =
                        [op |-> "CheckRequest", ip |-> ip, address |-> address,
                         Allowed |-> TRUE,
                         Reason |-> IF many
                                    THEN "Suspicious: Multiple addresses requested from same IP"
                                    ELSE "",
                         RiskScore |-> score2,
                         BlockedUntil |-> NilTime,
                         RecommendedDelay |-> IF score2 > 50 THEN score2 * Second
                                              ELSE IF vpn THEN 30 * Second ELSE 0]

CheckTrackedDelayingAtFifty(ip, address, blocked) ==
    LET attempts0 == getOrCreateTracker(ipAttempts, ip)
        ipTracker == attempts0[ip]
        score == calculateRiskScore(ipTracker)
        inWindow == Sub(now, ipTracker.FirstAttempt) < Hour
    IN  IF inWindow /\ HourlyCapReached(ipTracker)
        THEN /\ adRes' = Denied(ip, address,
                            "Too many requests from this IP (hourly limit exceeded)",
                            score, NilTime)
             /\ ipAttempts' = attempts0
             /\ blockedIPs' = blockIP(blocked, ip)
        ELSE
        LET tracker == IF inWindow THEN ipTracker
                       ELSE [ipTracker EXCEPT !.Count = 0, !.FirstAttempt = now]
            attempts == Put(attempts0, ip, tracker)
        IN  /\ ipAttempts' = attempts
            /\ IF tracker.SuccessfulCount + tracker.FailedCount
                    >= config.MaxAttemptsPerDay
               THEN /\ adRes' = Denied(ip, address, "Daily request limit exceeded",
                                       score, NilTime)
                    /\ blockedIPs' = blockIP(blocked, ip)
               ELSE
               /\ blockedIPs' = blocked
               /\ IF config.SubnetCheckEnabled /\ checkSubnetAbuse(ip, attempts)
                  THEN adRes' = Denied(ip, address,
                                       "Multiple requests detected from your subnet",
                                       score + 30, NilTime)
                  ELSE
                  LET vpn == config.VPNDetectionEnabled /\ isLikelyVPN(ip)
                      many == Cardinality(DOMAIN tracker.Addresses)
                                > config.SuspiciousThreshold
                      score1 == score + (IF vpn THEN 20 ELSE 0)
                      score2 == score1 + (IF many THEN 25 ELSE 0)
                  IN  adRes' =
                        [op |-> "CheckRequest", ip |-> ip, address |-> address,
                         Allowed |-> TRUE,
                         Reason |-> IF many
                                    THEN "Suspicious: Multiple addresses requested from same IP"
                                    ELSE "",
                         RiskScore |-> score2,
                         BlockedUntil |-> NilTime,
                         RecommendedDelay |-> IF score2 >= 50 THEN score2 * Second
                                              ELSE IF vpn THEN 30 * Second ELSE 0]

\* CheckRequest from line 111 on: no block refuses the request.  blocked is
\* blockedIPs without a stale entry of ip.
CheckTracked(ip, address, blocked) ==
    LET attempts0 == getOrCreateTracker(ipAttempts, ip)
        ipTracker == attempts0[ip]
        score == calculateRiskScore(ipTracker)
        inWindow == Sub(now, ipTracker.FirstAttempt) < Hour
    IN  IF inWindow /\ HourlyCapReached(ipTracker)
        THEN /\ adRes' = Denied(ip, address,
                            "Too many requests from this IP (hourly limit exceeded)",
                            score, NilTime)
             /\ ipAttempts' = attempts0
             /\ blockedIPs' = blockIP(blocked, ip)
        ELSE
        LET tracker == IF inWindow THEN ipTracker
                       ELSE [ipTracker EXCEPT !.Count = 0, !.FirstAttempt = now]
            attempts == Put(attempts0, ip, tracker)
        IN  /\ ipAttempts' = attempts
            /\ IF tracker.SuccessfulCount + tracker.FailedCount
                    >= config.MaxAttemptsPerDay
               THEN /\ adRes' = Denied(ip, address, "Daily request limit exceeded",
                                       score, NilTime)
                    /\ blockedIPs' = blockIP(blocked, ip)
               ELSE
               /\ blockedIPs' = blocked
               /\ IF config.SubnetCheckEnabled /\ checkSubnetAbuse(ip, attempts)
                  THEN adRes' = Denied(ip, address,
                                       "Multiple requests detected from your subnet",
                                       score + 30, NilTime)
                  ELSE
                  LET vpn == config.VPNDetectionEnabled /\ isLikelyVPN(ip)
                      many == Cardinality(DOMAIN tracker.Addresses)
                                > config.SuspiciousThreshold
                      score1 == score + (IF vpn THEN 20 ELSE 0)
                      score2 == score1 + (IF many THEN 25 ELSE 0)
                  IN  adRes' =
                        [op |-> "CheckRequest", ip |-> ip, address |-> address,
                         Allowed |-> TRUE,
                         Reason |-> IF many
                                    THEN "Suspicious: Multiple addresses requested from same IP"
                                    ELSE "",
                         RiskScore |-> score2,
                         BlockedUntil |-> NilTime,
                         RecommendedDelay |-> IF score2 > 50 THEN score2 * Second
                                              ELSE IF vpn THEN 30 * Second ELSE 0]

\* CheckRequest(ip, address)
CheckRequest(ip, address) ==
    /\ LET ipBlocked == ActiveBlock(blockedIPs, ip)
           addrBlocked == ActiveBlock(blockedAddrs, address)
           denial == BlockDenial(ipBlocked, addrBlocked)
           \* line 97, line 108: a stale entry is deleted on the way
           ips == IF ipBlocked THEN blockedIPs ELSE Remove(blockedIPs, ip)
           addrs == IF addrBlocked THEN blockedAddrs ELSE Remove(blockedAddrs, address)
       IN  IF denial = "ip"
           THEN /\ adRes' = Denied(ip, address, "IP address is temporarily blocked",
                                   0, blockedIPs[ip])
                /\ UNCHANGED <<ipAttempts, blockedIPs, blockedAddrs>>
           ELSE IF denial = "address"
           THEN /\ adRes' = Denied(ip, address, "Address is temporarily blocked",
                                   0, blockedAddrs[address])
                /\ blockedIPs' = ips
                /\ UNCHANGED <<ipAttempts, blockedAddrs>>
           ELSE /\ blockedAddrs' = addrs
                /\ CheckTracked(ip, address, ips)
    /\ UNCHANGED <<now, addressAttempts, config, notAbuse>>

\* the attempts recorded for ip are short of the bound of the run
Recordable(ip) ==
    ip \in DOMAIN ipAttempts
        => ipAttempts[ip].SuccessfulCount + ipAttempts[ip].FailedCount < MaxRecords

\* RecordAttempt(ip, address, success)
RecordAttemptOfIP(ip, address, success) ==
    /\ LET attempts == getOrCreateTracker(ipAttempts, ip)
           t == attempts[ip]
       IN  ipAttempts' = Put(attempts, ip,
            [Count |-> t.Count + 1,
             FirstAttempt |-> t.FirstAttempt,
             LastAttempt |-> now,
             SuccessfulCount |-> t.SuccessfulCount + (IF success THEN 1 ELSE 0),
             FailedCount |-> t.FailedCount + (IF success THEN 0 ELSE 1),
             Addresses |-> Put(t.Addresses, address,
                               IF address \in DOMAIN t.Addresses
                               THEN t.Addresses[address] + 1 ELSE 1)])
    /\ addressAttempts' = addressAttempts
    /\ adRes' = NoAdRes
    /\ UNCHANGED <<now, blockedIPs, blockedAddrs, config, notAbuse>>

RecordAttempt(ip, address, success) ==
    /\ LET attempts == getOrCreateTracker(ipAttempts, ip)
           t == attempts[ip]
       IN  ipAttempts' = Put(attempts, ip,
            [Count |-> t.Count + 1,
             FirstAttempt |-> t.FirstAttempt,
             LastAttempt |-> now,
             SuccessfulCount |-> t.SuccessfulCount + (IF success THEN 1 ELSE 0),
             FailedCount |-> t.FailedCount + (IF success THEN 0 ELSE 1),
             Addresses |-> Put(t.Addresses, address,
                               IF address \in DOMAIN t.Addresses
                               THEN t.Addresses[address] + 1 ELSE 1)])
    /\ LET attempts == getOrCreateTracker(addressAttempts, address)
           t == attempts[address]
       IN  addressAttempts' = Put(attempts, address,
                [Count |-> t.Count + 1,
                 FirstAttempt |-> t.FirstAttempt,
                 LastAttempt |-> now,
                 SuccessfulCount |-> t.SuccessfulCount + (IF success THEN 1 ELSE 0),
                 FailedCount |-> t.FailedCount + (IF success THEN 0 ELSE 1),
                 Addresses |-> t.Addresses])
    /\ adRes' = NoAdRes
    /\ UNCHANGED <<now, blockedIPs, blockedAddrs, config, notAbuse>>

\* BlockIP(ip, duration), BlockAddress(address, duration)
BlockIP(ip, duration) ==
    /\ blockedIPs' = Put(blockedIPs, ip,
                         Add(now, IF duration = 0 THEN config.BlockDuration
                                  ELSE duration))
    /\ adRes' = NoAdRes
    /\ UNCHANGED <<now, ipAttempts, addressAttempts, blockedAddrs, config, notAbuse>>

BlockAddress(address, duration) ==
    /\ blockedAddrs' = Put(blockedAddrs, address,
                           Add(now, IF duration = 0 THEN config.BlockDuration
                                    ELSE duration))
    /\ adRes' = NoAdRes
    /\ UNCHANGED <<now, ipAttempts, addressAttempts, blockedIPs, config, notAbuse>>

\* UnblockIP(ip), UnblockAddress(address)
UnblockIP(ip) ==
    /\ blockedIPs' = Remove(blockedIPs, ip)
    /\ adRes' = NoAdRes
    /\ UNCHANGED <<now, ipAttempts, addressAttempts, blockedAddrs, config, notAbuse>>

UnblockAddress(address) ==
    /\ blockedAddrs' = Remove(blockedAddrs, address)
    /\ adRes' = NoAdRes
    /\ UNCHANGED <<now, ipAttempts, addressAttempts, blockedIPs, config, notAbuse>>

\* one round of AbuseDetector.cleanup, the hourly sweep
AbuseCleanupFromADay ==
    /\ ipAttempts' = [ip \in {i \in DOMAIN ipAttempts :
                        ~(Sub(now, ipAttempts[i].LastAttempt) >= 24 * Hour)}
                      |-> ipAttempts[ip]]
    /\ addressAttempts' = [a \in {i \in DOMAIN addressAttempts :
                             ~(Sub(now, addressAttempts[i].LastAttempt) >= 24 * Hour)}
                           |-> addressAttempts[a]]
    /\ blockedIPs' = [ip \in {i \in DOMAIN blockedIPs :
                        ~After(now, blockedIPs[i])} |-> blockedIPs[ip]]
    /\ blockedAddrs' = [a \in {i \in DOMAIN blockedAddrs :
                          ~After(now, blockedAddrs[i])} |-> blockedAddrs[a]]
    /\ adRes' = NoAdRes
    /\ UNCHANGED <<now, config, notAbuse>>

AbuseCleanup ==
    /\ ipAttempts' = [ip \in {i \in DOMAIN ipAttempts :
                        ~(Sub(now, ipAttempts[i].LastAttempt) > 24 * Hour)}
                      |-> ipAttempts[ip]]
    /\ addressAttempts' = [a \in {i \in DOMAIN addressAttempts :
                             ~(Sub(now, addressAttempts[i].LastAttempt) > 24 * Hour)}
                           |-> addressAttempts[a]]
    /\ blockedIPs' = [ip \in {i \in DOMAIN blockedIPs :
                        ~After(now, blockedIPs[i])} |-> blockedIPs[ip]]
    /\ blockedAddrs' = [a \in {i \in DOMAIN blockedAddrs :
                          ~After(now, blockedAddrs[i])} |-> blockedAddrs[a]]
    /\ adRes' = NoAdRes
    /\ UNCHANGED <<now, config, notAbuse>>

\* the clock jumps to a later one of the instants
AbuseTick(instants) ==
    /\ \E t \in instants : t > now /\ now' = t
    /\ adRes' = NoAdRes
    /\ UNCHANGED <<ipAttempts, addressAttempts, blockedIPs, blockedAddrs, config,
                   notAbuse>>

-----------------------------------------------------------------------------
(* pkg/ratelimit : the rate limiter over a store of expiring counters, as   *)
(* its description, its tests and the interface the handler calls it by      *)
(* give it.                                                                  *)
(* The store ages a key out at its expiry: counters holds live keys only.    *)

\* the kinds of key: "ratelimit:ip:<ip>" and "ratelimit:address:<address>"
Kinds == {"ip", "address"}

NoErr == ""
StoreUnavailable == "store unavailable"

NoRlRes == [op |-> "none", kind |-> "", id |-> "", limited |-> FALSE, err |-> NoErr]

\* NewRateLimiter(client, config)
NewRateLimiter(cfg) == [per_ip |-> cfg.per_ip, per_address |-> cfg.per_address,
                        window |-> cfg.window]

EmptyStore == [kind \in Kinds |-> << >>]

\* GetCurrentCount(key): a key that is not there counts 0
GetCurrentCount(kind, id) ==
    IF id \in DOMAIN counters[kind] THEN counters[kind][id].count ELSE 0

\* GetRemainingTime(key): the key's time to live, 0 when it is not there
GetRemainingTime(kind, id) ==
    IF id \in DOMAIN counters[kind] THEN Sub(counters[kind][id].expiresAt, now) ELSE 0

\* the configured maximum of a kind
LimitOf(kind) == IF kind = "ip" THEN limits.per_ip ELSE limits.per_address

\* the count has reached the maximum
Exceeded(count, limit) == count > limit
Reached(count, limit) == count >= limit

\* the expiry an increment leaves on a key: set on the first increment of a
\* window, kept by the later ones
RenewedExpiry(kind, id) == Add(now, limits.window)
KeptExpiry(kind, id) ==
    IF id \in DOMAIN counters[kind] THEN counters[kind][id].expiresAt
    ELSE Add(now, limits.window)

\* the store after an atomic increment of the key
Incremented(kind, id) ==
    [counters EXCEPT ![kind] =
        Put(counters[kind], id, [count |-> GetCurrentCount(kind, id) + 1,
                                 expiresAt |-> KeptExpiry(kind, id)])]

\* the store at instant t: the keys whose expiry has come are gone
AgedAt(t) ==
    [kind \in Kinds |->
        [id \in {k \in DOMAIN counters[kind] : t < counters[kind][k].expiresAt}
            |-> counters[kind][id]]]

\* CheckIPLimit / CheckAddressLimit as the caller sees them: (limited, err)
CheckedLimit(kind, id) ==
    IF storeUp
    THEN [limited |-> Reached(GetCurrentCount(kind, id), LimitOf(kind)), err |-> NoErr]
    ELSE [limited |-> FALSE, err |-> StoreUnavailable]

CheckLimit(kind, id) ==
    /\ rlRes' = [op |-> "Check", kind |-> kind, id |-> id,
                 limited |-> CheckedLimit(kind, id).limited,
                 err |-> CheckedLimit(kind, id).err]
    /\ UNCHANGED <<now, counters, storeUp, limits, apiVars, notWeb>>

CheckIPLimit(ip) == CheckLimit("ip", ip)
CheckAddressLimit(address) == CheckLimit("address", address)

\* IncrementIPCounter / IncrementAddressCounter
IncrementCounter(kind, id) ==
    /\ counters' = IF storeUp THEN Incremented(kind, id) ELSE counters
    /\ rlRes' = [op |-> "Increment", kind |-> kind, id |-> id, limited |-> FALSE,
                 err |-> IF storeUp THEN NoErr ELSE StoreUnavailable]
    /\ UNCHANGED <<now, storeUp, limits, apiVars, notWeb>>

IncrementIPCounter(ip) == IncrementCounter("ip", ip)
IncrementAddressCounter(address) == IncrementCounter("address", address)

\* the store becomes unreachable, or reachable again
StoreFails ==
    /\ storeUp
    /\ storeUp' = FALSE
    /\ rlRes' = NoRlRes
    /\ UNCHANGED <<now, counters, limits, apiVars, notWeb>>

StoreRecovers ==
    /\ ~storeUp
    /\ storeUp' = TRUE
    /\ rlRes' = NoRlRes
    /\ UNCHANGED <<now, counters, limits, apiVars, notWeb>>

\* time passes, and the store ages its keys
WebTick(instants) ==
    /\ \E t \in instants :
         /\ t > now
         /\ now' = t
         /\ counters' = AgedAt(t)
    /\ rlRes' = NoRlRes
    /\ UNCHANGED <<storeUp, limits, apiVars, notWeb>>

\* the limiter while another engine runs
RlInitIdle ==
    /\ counters = EmptyStore
    /\ storeUp = TRUE
    /\ limits = NewRateLimiter([per_ip |-> 0, per_address |-> 0, window |-> 0])
    /\ rlRes = NoRlRes
    /\ incLog = EmptyStore

-----------------------------------------------------------------------------
(* pkg/api : the token request handler, and main's wiring of it.  A call of  *)
(* RequestTokens runs in its own goroutine; it is cut at its calls on the    *)
(* limiter, each of which the store serves atomically.  What the database,   *)
(* the chain and the captcha provider answer is the environment's choice.    *)

\* an allowlist entry: a text, and the bits after its "/" when it has one
NoSlash == 0 - 1
Entry(text, ones) == [text |-> text, ones |-> ones]

\* addressAllowed(address, allowlist)
addressAllowed(address, allowlist) ==
    \/ Len(allowlist) = 0
    \/ \E i \in 1..Len(allowlist) : address = allowlist[i]

\* ipAllowed(ip, allowlist)
ipAllowed(ip, allowlist) ==
    \/ Len(allowlist) = 0
    \/ \E i \in 1..Len(allowlist) :
          LET allowed == allowlist[i]
          IN  \/ allowed.ones = NoSlash /\ allowed.text = ip
              \/ /\ allowed.ones # NoSlash
                 /\ ParseCIDR(allowed.text, allowed.ones) # NilNet
                 /\ ParseIP(ip) # NilIP
                 /\ Contains(ParseCIDR(allowed.text, allowed.ones), ParseIP(ip))

\* verifyCaptcha(token, remoteIP): answer is what the provider said of the token
verifyCaptcha(answer) ==
    IF ~handler.cfg.TurnstileSecret THEN TRUE ELSE answer

\* ValidateAddress(address) of the faucet service, by the address's prefix
ValidateAddress(address) == IF address = "bad" THEN "invalid address" ELSE NoErr

\* main: the database and the limiter are set up when their URL is there and
\* the connection succeeds; the limiter is handed to NewHandler as a
\* *ratelimit.RateLimiter, nil or not
Wired(cfg, database, redis) ==
    [cfg |-> cfg,
     db |-> database = "up",
     rateLimiter |-> IF redis = "up" THEN "redis" ELSE "nilptr"]

\* h.rateLimiter == nil, h.db == nil
NoLimiter == handler.rateLimiter = "nil"
DependenciesMissing == NoLimiter \/ ~handler.db

\* HTTP statuses
StatusOK == 200
StatusBadRequest == 400
StatusForbidden == 403
StatusTooManyRequests == 429
StatusInternalServerError == 500
StatusServiceUnavailable == 503

\* a call that has not started
Idle == [pc |-> "idle", status |-> 0]

\* c.JSON(status, gin.H{"error": error})
Answer(status, error) == [status |-> status, error |-> error]
NoAnswer == Answer(0, "")

\* the answer and the return after it: of the call, the request and the
\* answer remain
Answered(in, answer) ==
    [pc |-> "done", status |-> answer.status, error |-> answer.error, in |-> in]
Respond(r, answer) == reqs' = [reqs EXCEPT ![r] = Answered(reqs[r].in, answer)]

\* what the request brought, and the gates up to the dependencies
FailedGate(in) ==
    IF ~in.body THEN Answer(StatusBadRequest, "Invalid request format")
    ELSE IF ValidateAddress(in.address) # NoErr
         THEN Answer(StatusBadRequest, "Invalid address format")
    ELSE IF ~addressAllowed(in.address, handler.cfg.AllowedAddresses)
         THEN Answer(StatusForbidden, "Address is not allowed to use this faucet")
    ELSE IF ~ipAllowed(in.ip, handler.cfg.AllowedIPs)
         THEN Answer(StatusForbidden, "IP is not allowed to use this faucet")
    ELSE IF handler.cfg.RequireCaptcha /\ ~verifyCaptcha(in.captcha)
         THEN Answer(StatusBadRequest, "Captcha verification failed")
    ELSE IF DependenciesMissing
         THEN Answer(StatusServiceUnavailable, "Service dependencies not configured")
    ELSE NoAnswer

\* RequestTokens, from the binding of the body to the dependency check
Begin(r, in) ==
    /\ reqs[r].pc = "idle"
    /\ reqs' = [reqs EXCEPT ![r] =
                  IF FailedGate(in) = NoAnswer
                  THEN [pc |-> "checkIP", status |-> 0, in |-> in]
                  ELSE Answered(in, FailedGate(in))]
    /\ rlRes' = NoRlRes
    /\ UNCHANGED <<now, counters, storeUp, limits, handler, sent, notWeb>>

\* the error of a limit check is answered 500
IgnoredCheck(res) == FALSE
CheckFailed(res) == res.err # NoErr

\* what a limited key is answered
LimitedAnswer(kind) ==
    IF kind = "ip"
    THEN Answer(StatusTooManyRequests,
                "Too many requests from your IP address. Please try again later.")
    ELSE Answer(StatusTooManyRequests,
                "This address has already received tokens recently. Please wait 24 hours.")

\* h.rateLimiter.CheckIPLimit, CheckAddressLimit and what follows each; a
\* method of the nil limiter main may have wired panics, and the router's
\* recovery answers 500 with no body
CheckStep(r, at, kind, id, next) ==
    /\ reqs[r].pc = at
    /\ LET res == CheckedLimit(kind, id)
       IN  IF handler.rateLimiter = "nilptr"
           THEN Respond(r, Answer(StatusInternalServerError, ""))
           ELSE IF CheckFailed(res)
                THEN Respond(r, Answer(StatusInternalServerError, "Internal server error"))
           ELSE IF res.limited THEN Respond(r, LimitedAnswer(kind))
           ELSE reqs' = [reqs EXCEPT ![r] = [@ EXCEPT !.pc = next]]
    /\ rlRes' = NoRlRes
    /\ UNCHANGED <<now, counters, storeUp, limits, handler, sent, notWeb>>

CheckIP(r) == CheckStep(r, "checkIP", "ip", reqs[r].in.ip, "checkAddress")
CheckAddress(r) == CheckStep(r, "checkAddress", "address", reqs[r].in.address, "send")

\* GetAddressBalance(address): (balance, err)
Balance(value, err) == [value |-> value, err |-> err]

\* rows of the address were found in the last 24 hours
AnyRows(found) == FALSE
RecentRows(found) == found = "rows"

\* the history, the balance cap and SendTokens: the answer the call ends
\* with before any token moves, none when SendTokens is called
Unfunded(found, balance) ==
    IF found # "err" /\ RecentRows(found)
    THEN Answer(StatusTooManyRequests,
                "This address has already received tokens in the last 24 hours.")
    ELSE IF handler.cfg.MaxRecipientBalance > 0
         THEN IF balance.err
              THEN Answer(StatusServiceUnavailable,
                          "Unable to verify recipient balance at this time")
              ELSE IF balance.value >= handler.cfg.MaxRecipientBalance
                   THEN Answer(StatusTooManyRequests,
                               "Address balance is above faucet eligibility threshold")
              ELSE NoAnswer
    ELSE NoAnswer

SendThenCount(r, found, balance, sendErr) ==
    /\ reqs[r].pc = "send"
    /\ LET out == [found |-> found, balance |-> balance, sendErr |-> sendErr]
           answer == Unfunded(found, balance)
       IN  /\ reqs' = [reqs EXCEPT ![r] =
                         IF answer = NoAnswer
                         THEN [pc |-> "incrementIP", status |-> 0,
                               in |-> reqs[r].in, out |-> out]
                         ELSE Answered(reqs[r].in, answer)]
           /\ sent' = IF Unfunded(found, balance) = NoAnswer
                      THEN Put(sent, r, [Recipient |-> reqs[r].in.address,
                                         IPAddress |-> reqs[r].in.ip,
                                         ok |-> ~sendErr, after |-> out])
                      ELSE sent
    /\ rlRes' = NoRlRes
    /\ UNCHANGED <<now, counters, storeUp, limits, handler, notWeb>>

Send(r, found, balance, sendErr) ==
    /\ reqs[r].pc = "send"
    /\ LET out == [found |-> found, balance |-> balance, sendErr |-> sendErr]
           answer == IF Unfunded(found, balance) # NoAnswer
                     THEN Unfunded(found, balance)
                     ELSE IF sendErr
                          THEN Answer(StatusInternalServerError,
                                      "Failed to send tokens. Please try again later.")
                     ELSE NoAnswer
       IN  /\ reqs' = [reqs EXCEPT ![r] =
                         IF answer = NoAnswer
                         THEN [pc |-> "incrementIP", status |-> 0,
                               in |-> reqs[r].in, out |-> out]
                         ELSE Answered(reqs[r].in, answer)]
           /\ sent' = IF Unfunded(found, balance) = NoAnswer
                      THEN Put(sent, r, [Recipient |-> reqs[r].in.address,
                                         IPAddress |-> reqs[r].in.ip,
                                         ok |-> ~sendErr, after |-> out])
                      ELSE sent
    /\ rlRes' = NoRlRes
    /\ UNCHANGED <<now, counters, storeUp, limits, handler, notWeb>>

\* the counters after the send; an error of the store is logged only
IncrementIP(r) ==
    /\ reqs[r].pc = "incrementIP"
    /\ counters' = IF storeUp THEN Incremented("ip", reqs[r].in.ip) ELSE counters
    /\ reqs' = [reqs EXCEPT ![r] = [@ EXCEPT !.pc = "incrementAddress"]]
    /\ rlRes' = NoRlRes
    /\ UNCHANGED <<now, storeUp, limits, handler, sent, notWeb>>

IncrementAddress(r) ==
    /\ reqs[r].pc = "incrementAddress"
    /\ counters' = IF storeUp THEN Incremented("address", reqs[r].in.address)
                   ELSE counters
    /\ Respond(r, Answer(StatusOK, ""))
    /\ rlRes' = NoRlRes
    /\ UNCHANGED <<now, storeUp, limits, handler, sent, notWeb>>

\* the handler while another engine runs
ApiInitIdle ==
    /\ handler = [cfg |-> << >>, db |-> FALSE, rateLimiter |-> "nil"]
    /\ reqs = << >>
    /\ sent = << >>

WebInitIdle == RlInitIdle /\ ApiInitIdle

-----------------------------------------------------------------------------
(* metrics.MetricsTracker: every method holds m.mu for its whole body.     *)
(* Timestamps are seconds like now; a response time is a time.Duration in  *)
(* nanoseconds; a float64 quotient a/b is kept as the pair of a and b.     *)

\* the series is cut when it grows past MaxSamples, to its last KeptSamples
MaxSamples == 10000
KeptSamples == 1000
\* GetSummary lists this many recipients at most
TopCount == 10
\* time.Millisecond, in nanoseconds
NanosPerMillisecond == 1000000

Ratio(a, b) == [num |-> a, den |-> b]

\* d.Milliseconds()
Milliseconds(d) == d \div NanosPerMillisecond

\* NewMetricsTracker(), called at the instant at
NewMetricsTracker(at) ==
    [totalRequests |-> 0, successfulRequests |-> 0, failedRequests |-> 0,
     blockedRequests |-> 0, totalTokensDistributed |-> 0,
     avgTokensPerRequest |-> Ratio(0, 1),
     requestsPerHour |-> << >>, requestsPerDay |-> << >>,
     uniqueAddresses |-> {}, topRecipients |-> << >>,
     uniqueIPs |-> {}, requestsByCountry |-> << >>,
     avgResponseTime |-> 0, responseTimes |-> << >>, maxResponseTime |-> 0,
     errorCounts |-> << >>, startTime |-> at]

NoMtRes == [op |-> "none"]

\* m[key]++ on a map of counters
Bump(m, key) == Put(m, key, (IF key \in DOMAIN m THEN m[key] ELSE 0) + 1)

\* RecordRequest, the totals and the address metrics
CountedEveryAddress(t, m) ==
    IF m.Success
    THEN [t EXCEPT !.totalRequests = @ + 1,
                   !.successfulRequests = @ + 1,
                   !.totalTokensDistributed = @ + m.Amount,
                   !.uniqueAddresses = @ \cup {m.Address},
                   !.topRecipients = Bump(@, m.Address)]
    ELSE [t EXCEPT !.totalRequests = @ + 1,
                   !.failedRequests = @ + 1,
                   !.uniqueAddresses = @ \cup {m.Address},
                   !.errorCounts = IF m.ErrorType # "" THEN Bump(@, m.ErrorType)
                                   ELSE @]

Counted(t, m) ==
    IF m.Success
    THEN [t EXCEPT !.totalRequests = @ + 1,
                   !.successfulRequests = @ + 1,
                   !.totalTokensDistributed = @ + m.Amount,
                   !.uniqueAddresses = @ \cup {m.Address},
                   !.topRecipients = Bump(@, m.Address)]
    ELSE [t EXCEPT !.totalRequests = @ + 1,
                   !.failedRequests = @ + 1,
                   !.errorCounts = IF m.ErrorType # "" THEN Bump(@, m.ErrorType)
                                   ELSE @]

\* Timestamp.Hour() and Timestamp.Format("2006-01-02"): the hour of the day
\* and the day, counted from the epoch
HourOf(ts) == (ts \div Hour) % 24
DateOf(ts) == ts \div Day

\* RecordRequest, the IP and the histograms
Timed(t, m) ==
    [t EXCEPT !.uniqueIPs = @ \cup {m.IP},
              !.requestsPerHour = Bump(@, HourOf(m.Timestamp)),
              !.requestsPerDay = Bump(@, DateOf(m.Timestamp))]

\* the sum of s[lo..hi]
RECURSIVE Total(_, _, _)
Total(s, lo, hi) ==
    IF lo > hi THEN 0
    ELSE IF lo = hi THEN s[lo]
    ELSE LET mid == (lo + hi) \div 2
         IN  Total(s, lo, mid) + Total(s, mid + 1, hi)

\* the series after the append
TrimmedToOldest(s) ==
    IF Len(s) > MaxSamples THEN SubSeq(s, 1, KeptSamples) ELSE s

Trimmed(s) ==
    IF Len(s) > MaxSamples THEN SubSeq(s, Len(s) - KeptSamples + 1, Len(s)) ELSE s

\* RecordRequest, the response times: the average is taken before the cut
Sampled(t, m) ==
    LET all == Append(t.responseTimes, m.ResponseTime)
    IN  [t EXCEPT !.responseTimes = Trimmed(all),
                  !.maxResponseTime = IF m.ResponseTime > @ THEN m.ResponseTime
                                      ELSE @,
                  !.avgResponseTime = IF Len(all) > 0
                                      THEN Total(all, 1, Len(all)) \div Len(all)
                                      ELSE @]

\* RecordRequest, the average tokens per request
Averaged(t) ==
    IF t.successfulRequests > 0
    THEN [t EXCEPT !.avgTokensPerRequest =
                       Ratio(t.totalTokensDistributed, t.successfulRequests)]
    ELSE t

notMt == <<now, powVars, capVars, adVars, obsVars, tuneVars, rlVars, apiVars,
           runVars>>

\* RecordRequest(metrics)
RecordRequest(m) ==
    /\ metricsTracker' = Averaged(Sampled(Timed(Counted(metricsTracker, m), m), m))
    /\ mtRes' = NoMtRes
    /\ UNCHANGED notMt

\* RecordBlocked(ip)
RecordBlockedAsFailure(ip) ==
    /\ metricsTracker' = [metricsTracker EXCEPT !.blockedRequests = @ + 1,
                                  !.failedRequests = @ + 1,
                                  !.uniqueIPs = @ \cup {ip}]
    /\ mtRes' = NoMtRes
    /\ UNCHANGED notMt

RecordBlocked(ip) ==
    /\ metricsTracker' = [metricsTracker EXCEPT !.blockedRequests = @ + 1,
                                  !.uniqueIPs = @ \cup {ip}]
    /\ mtRes' = NoMtRes
    /\ UNCHANGED notMt

\* the orders in which a range over a map with these keys may visit them
Orders(keys) ==
    {s \in [1..Cardinality(keys) -> keys] :
        \A i, j \in 1..Cardinality(keys) : i # j => s[i] # s[j]}

Swap(s, i, j) == [s EXCEPT ![i] = s[j], ![j] = s[i]]

\* the sort of GetSummary and GetTopRecipients: for i, for j > i, swap when
\* the later entry has the greater count
RECURSIVE PassRecipients(_, _, _)
PassRecipients(s, i, j) ==
    IF j > Len(s) THEN s
    ELSE PassRecipients(IF s[j].RequestCount > s[i].RequestCount
                        THEN Swap(s, i, j) ELSE s, i, j + 1)

RECURSIVE SortRecipients(_, _)
SortRecipients(s, i) ==
    IF i > Len(s) THEN s ELSE SortRecipients(PassRecipients(s, i, i + 1), i + 1)

\* the recipients, collected in the order the range visits them, sorted, and
\* cut to limit entries
Recipients(t, order, limit) ==
    LET all == [k \in 1..Len(order) |->
                   [Address |-> order[k],
                    RequestCount |-> t.topRecipients[order[k]],
                    TotalAmount |-> 0]]
        sorted == SortRecipients(all, 1)
    IN  IF Len(sorted) > limit THEN SubSeq(sorted, 1, limit) ELSE sorted

\* GetSummary()
GetSummary ==
    /\ \E order \in Orders(DOMAIN metricsTracker.topRecipients) :
          mtRes' =
            [op |-> "GetSummary",
             TotalRequests |-> metricsTracker.totalRequests,
             SuccessfulRequests |-> metricsTracker.successfulRequests,
             FailedRequests |-> metricsTracker.failedRequests,
             BlockedRequests |-> metricsTracker.blockedRequests,
             SuccessRate |-> IF metricsTracker.totalRequests > 0
                             THEN Ratio(metricsTracker.successfulRequests * 100,
                                        metricsTracker.totalRequests)
                             ELSE Ratio(0, 1),
             TotalTokensDistributed |-> metricsTracker.totalTokensDistributed,
             UniqueAddresses |-> Cardinality(metricsTracker.uniqueAddresses),
             UniqueIPs |-> Cardinality(metricsTracker.uniqueIPs),
             AvgResponseTime |-> metricsTracker.avgResponseTime,
             MaxResponseTime |-> metricsTracker.maxResponseTime,
             UptimeHours |-> Ratio(now - metricsTracker.startTime, Hour),
             RequestsPerHour |-> IF now - metricsTracker.startTime > 0
                                 THEN Ratio(metricsTracker.totalRequests * Hour,
                                            now - metricsTracker.startTime)
                                 ELSE Ratio(0, 1),
             TopRecipients |-> Recipients(metricsTracker, order, TopCount),
             ErrorBreakdown |-> metricsTracker.errorCounts,
             HourlyDistribution |-> metricsTracker.requestsPerHour]
    /\ UNCHANGED <<metricsTracker, notMt>>

\* GetHourlyStats(), GetDailyStats(), GetErrorStats()
GetHourlyStats ==
    /\ mtRes' = [op |-> "GetHourlyStats", stats |-> metricsTracker.requestsPerHour]
    /\ UNCHANGED <<metricsTracker, notMt>>

GetDailyStats ==
    /\ mtRes' = [op |-> "GetDailyStats", stats |-> metricsTracker.requestsPerDay]
    /\ UNCHANGED <<metricsTracker, notMt>>

GetErrorStats ==
    /\ mtRes' = [op |-> "GetErrorStats", stats |-> metricsTracker.errorCounts]
    /\ UNCHANGED <<metricsTracker, notMt>>

\* GetTopRecipients(limit)
GetTopRecipients(limit) ==
    /\ \E order \in Orders(DOMAIN metricsTracker.topRecipients) :
          mtRes' = [op |-> "GetTopRecipients", limit |-> limit,
                    recipients |-> Recipients(metricsTracker, order, limit)]
    /\ UNCHANGED <<metricsTracker, notMt>>

\* the sort of calculatePercentiles: for i, for j > i, swap when the later
\* sample is the smaller
RECURSIVE PassDurations(_, _, _)
PassDurations(s, i, j) ==
    IF j > Len(s) THEN s
    ELSE PassDurations(IF s[j] < s[i] THEN Swap(s, i, j) ELSE s, i, j + 1)

RECURSIVE SortDurations(_, _)
SortDurations(s, i) ==
    IF i > Len(s) THEN s ELSE SortDurations(PassDurations(s, i, i + 1), i + 1)

\* int(float64(n) * 0.50), 0.95, 0.99, then the clamp; counted from 0.  The
\* float64 product truncates to the whole part of n * percent / 100 for
\* every n the series can have
PercentileIndexRounded(n, percent) ==
    LET idx == (n * percent + 50) \div 100
    IN  IF idx >= n THEN n - 1 ELSE idx

PercentileIndex(n, percent) ==
    LET idx == (n * percent) \div 100
    IN  IF idx >= n THEN n - 1 ELSE idx

\* calculatePercentiles(): <<p50, p95, p99>>
calculatePercentiles(t) ==
    IF Len(t.responseTimes) = 0 THEN <<0, 0, 0>>
    ELSE LET sorted == SortDurations(t.responseTimes, 1)
             n == Len(sorted)
         IN  <<sorted[PercentileIndex(n, 50) + 1],
               sorted[PercentileIndex(n, 95) + 1],
               sorted[PercentileIndex(n, 99) + 1]>>

\* GetPerformanceStats()
GetPerformanceStats ==
    /\ mtRes' =
         LET p == calculatePercentiles(metricsTracker)
         IN  [op |-> "GetPerformanceStats",
              avg_response_time |-> Milliseconds(metricsTracker.avgResponseTime),
              max_response_time |-> Milliseconds(metricsTracker.maxResponseTime),
              p50_response_time |-> Milliseconds(p[1]),
              p95_response_time |-> Milliseconds(p[2]),
              p99_response_time |-> Milliseconds(p[3]),
              total_samples |-> Len(metricsTracker.responseTimes)]
    /\ UNCHANGED <<metricsTracker, notMt>>

\* Reset()
Reset ==
    /\ metricsTracker' = NewMetricsTracker(now)
    /\ mtRes' = NoMtRes
    /\ UNCHANGED notMt

\* the tracker ages
MtTick(instants) ==
    /\ \E t \in instants : t > now /\ now' = t
    /\ mtRes' = NoMtRes
    /\ UNCHANGED <<metricsTracker, mtHist, powVars, capVars, adVars, obsVars, tuneVars,
                   rlVars, apiVars, runVars>>

\* nothing recorded yet; earlier counts the requests that were recorded
\* before the behaviour started
NoHistory == [requests |-> << >>, blocked |-> << >>, earlier |-> 0]

\* the tracker while another engine runs
MtInitIdle ==
    /\ metricsTracker = NewMetricsTracker(0)
    /\ mtRes = NoMtRes
    /\ mtHist = NoHistory

\* no goroutine is inside a call
RunInitIdle ==
    /\ procs = << >>
    /\ locks = << >>

SideInitIdle == MtInitIdle /\ RunInitIdle

-----------------------------------------------------------------------------
(* Concurrent callers.  ProofOfWork.Verify and CaptchaService.Validate look *)
(* the entry up under the read lock, release it, judge the candidate with  *)
(* no lock held and take the write lock again to delete the entry: other   *)
(* calls run in between.  A goroutine is one caller; procs[t] says where   *)
(* its call stands and what it holds in its locals.                        *)

Callers == 1..MaxCallers

Resting == [pc |-> "idle"]

besidePow == <<capVars, adVars, obsVars, tuneVars, rlVars, apiVars, mtVars, locks>>
besideCap == <<powVars, adVars, obsVars, tuneVars, rlVars, apiVars, mtVars, locks>>

\* Verify, lines 87-89: the lookup under p.mu.RLock
VerifyLookup(t, challengeID, solution) ==
    /\ procs[t].pc = "idle"
    /\ procs' = [procs EXCEPT ![t] =
                   [pc |-> "looked", op |-> "Verify", id |-> challengeID,
                    solution |-> solution,
                    found |-> challengeID \in DOMAIN challenges,
                    item |-> IF challengeID \in DOMAIN challenges
                             THEN challenges[challengeID] ELSE << >>,
                    valid |-> FALSE, err |-> ""]]
    /\ powRes' = NoPowRes
    /\ UNCHANGED <<now, challenges, difficulty, nextChallenge, powHist, besidePow>>

\* what Verify hands back
Returned(call) ==
    [op |-> call.op, id |-> call.id, solution |-> call.solution,
     valid |-> call.valid, err |-> call.err]

\* Verify, lines 91-105: not found, the expiry, the hash; no lock is held
VerifyJudge(t) ==
    /\ procs[t].pc = "looked"
    /\ procs[t].op = "Verify"
    /\ LET call == procs[t]
           next ==
             IF ~call.found
             THEN [call EXCEPT !.pc = "done", !.err = "challenge not found"]
             ELSE IF After(now, call.item.ExpiresAt)
             THEN [call EXCEPT !.pc = "evict", !.err = "challenge expired"]
             ELSE IF verifyHash(computeHash(call.item.Nonce, call.solution),
                                call.item.Difficulty)
             THEN [call EXCEPT !.pc = "evict", !.valid = TRUE]
             ELSE [call EXCEPT !.pc = "done"]
       IN  /\ procs' = [procs EXCEPT ![t] = next]
           /\ powRes' = IF next.pc = "done" THEN Returned(next) ELSE NoPowRes
    /\ UNCHANGED <<now, challenges, difficulty, nextChallenge, powHist, besidePow>>

\* Verify, lines 97-100 and 109-114: the delete under p.mu.Lock, the return
VerifyEvict(t) ==
    /\ procs[t].pc = "evict"
    /\ procs[t].op = "Verify"
    /\ challenges' = DeleteChallenge(procs[t].id)
    /\ procs' = [procs EXCEPT ![t].pc = "done"]
    /\ powRes' = Returned(procs[t])
    /\ UNCHANGED <<now, difficulty, nextChallenge, powHist, besidePow>>

\* Validate, line 167: s.store.Get(id), under the store's read lock
ValidateGet(t, id, solution) ==
    /\ procs[t].pc = "idle"
    /\ procs' = [procs EXCEPT ![t] =
                   [pc |-> "looked", op |-> "Validate", id |-> id,
                    solution |-> solution,
                    found |-> id \in DOMAIN captchas,
                    item |-> IF id \in DOMAIN captchas THEN captchas[id] ELSE << >>,
                    valid |-> FALSE, compared |-> FALSE]]
    /\ capRes' = NoCapRes
    /\ UNCHANGED <<now, captchas, options, nextCaptcha, capHist, besideCap>>

\* Validate, lines 168-179: not found, the expiry, the comparison; no lock
\* is held
ValidateJudge(t) ==
    /\ procs[t].pc = "looked"
    /\ procs[t].op = "Validate"
    /\ LET call == procs[t]
           next ==
             IF ~call.found THEN [call EXCEPT !.pc = "done"]
             ELSE IF After(now, call.item.ExpiresAt)
             THEN [call EXCEPT !.pc = "delete"]
             ELSE [call EXCEPT !.pc = "delete", !.compared = TRUE,
                               !.valid = SolutionMatches(call.item.Solution,
                                                         call.solution)]
       IN  /\ procs' = [procs EXCEPT ![t] = next]
           /\ capRes' = IF next.pc = "done"
                        THEN [op |-> "Validate", id |-> call.id,
                              solution |-> call.solution, valid |-> FALSE]
                        ELSE NoCapRes
    /\ UNCHANGED <<now, captchas, options, nextCaptcha, capHist, besideCap>>

\* Validate, lines 174-175 and 182-184: s.store.Delete(id) under the store's
\* write lock, the return
ValidateDelete(t) ==
    /\ procs[t].pc = "delete"
    /\ procs[t].op = "Validate"
    /\ captchas' = StoreDelete(procs[t].id)
    /\ procs' = [procs EXCEPT ![t].pc = "done"]
    /\ capRes' = [op |-> "Validate", id |-> procs[t].id,
                  solution |-> procs[t].solution, valid |-> procs[t].valid]
    /\ UNCHANGED <<now, options, nextCaptcha, capHist, besideCap>>

\* a caller of the detector: CheckRequest, and RecordAttempt once the request
\* was admitted; both hold ad.mu for their whole body, nothing holds it in
\* between
Admission(t, ip, address) ==
    /\ procs[t].pc = "idle"
    /\ CheckRequest(ip, address)
    /\ procs' = [procs EXCEPT ![t] =
                   IF adRes'.Allowed
                   THEN [pc |-> "admitted", ip |-> ip, address |-> address]
                   ELSE Resting]

Completion(t, success) ==
    /\ procs[t].pc = "admitted"
    /\ Recordable(procs[t].ip)
    /\ RecordAttempt(procs[t].ip, procs[t].address, success)
    /\ procs' = [procs EXCEPT ![t] = Resting]

\* the requests for an IP that were admitted and are not recorded yet
InFlight(ip) == {t \in Callers : procs[t].pc = "admitted" /\ procs[t].ip = ip}

-----------------------------------------------------------------------------
(* The mutexes.  Each engine guards its maps with one sync.RWMutex; a call  *)
(* is, for its locking, the sequence of Lock, RLock, Unlock and RUnlock it  *)
(* performs.  A Lock first shuts new readers out (the writer is pending)    *)
(* and then waits for the readers that hold the mutex to leave; an RLock    *)
(* waits while a writer holds the mutex or is pending.                      *)

Mutexes == {"ProofOfWork.mu", "AdaptiveDifficulty.mu", "CaptchaService.mu",
            "CaptchaStore.mu", "AbuseDetector.mu", "MetricsTracker.mu"}

Free == [w |-> 0, readers |-> {}]

Step(kind, mutex) == [kind |-> kind, mutex |-> mutex]

\* mu.Lock(); ...; mu.Unlock()   and   mu.RLock(); ...; mu.RUnlock()
Exclusive(mutex) == <<Step("Lock", mutex), Step("Unlock", mutex)>>
Shared(mutex) == <<Step("RLock", mutex), Step("RUnlock", mutex)>>

\* ProofOfWork.SetDifficulty
SetDifficultyUnderController ==
    <<Step("Lock", "ProofOfWork.mu"), Step("Lock", "AdaptiveDifficulty.mu"),
      Step("Unlock", "AdaptiveDifficulty.mu"), Step("Unlock", "ProofOfWork.mu")>>

SetDifficultyLocks == Exclusive("ProofOfWork.mu")

\* AdaptiveDifficulty.UpdateLoad: ad.mu is held while ad.pow.SetDifficulty runs
UpdateLoadLocks ==
    <<Step("Lock", "AdaptiveDifficulty.mu")>> \o SetDifficultyLocks
        \o <<Step("Unlock", "AdaptiveDifficulty.mu")>>

\* CaptchaStore.Set, Get, Delete
StoreSetLocks == Exclusive("CaptchaStore.mu")
StoreGetLocks == Shared("CaptchaStore.mu")
StoreDeleteLocks == Exclusive("CaptchaStore.mu")

\* CaptchaService.Generate: s.mu is held while s.store.Set runs
GenerateLocks ==
    <<Step("Lock", "CaptchaService.mu")>> \o StoreSetLocks
        \o <<Step("Unlock", "CaptchaService.mu")>>

\* the calls of the engines and their background sweeps
LockPrograms ==
    [GenerateChallenge |-> Exclusive("ProofOfWork.mu"),
     VerifyRejected |-> Shared("ProofOfWork.mu"),
     VerifyEvicting |-> Shared("ProofOfWork.mu") \o Exclusive("ProofOfWork.mu"),
     GetChallenge |-> Shared("ProofOfWork.mu"),
     SetDifficulty |-> SetDifficultyLocks,
     PowGetStats |-> Shared("ProofOfWork.mu"),
     PowCleanup |-> Exclusive("ProofOfWork.mu"),
     UpdateLoad |-> UpdateLoadLocks,
     GetCurrentDifficulty |-> Shared("AdaptiveDifficulty.mu"),
     Generate |-> GenerateLocks,
     GenerateFailed |-> Exclusive("CaptchaService.mu"),
     ValidateUnknown |-> StoreGetLocks,
     Validate |-> StoreGetLocks \o StoreDeleteLocks,
     CapCleanup |-> Exclusive("CaptchaStore.mu"),
     CheckRequest |-> Exclusive("AbuseDetector.mu"),
     RecordAttempt |-> Exclusive("AbuseDetector.mu"),
     BlockIP |-> Exclusive("AbuseDetector.mu"),
     UnblockIP |-> Exclusive("AbuseDetector.mu"),
     AbuseGetStats |-> Shared("AbuseDetector.mu"),
     AbuseCleanup |-> Exclusive("AbuseDetector.mu"),
     RecordRequest |-> Exclusive("MetricsTracker.mu"),
     RecordBlocked |-> Exclusive("MetricsTracker.mu"),
     GetSummary |-> Shared("MetricsTracker.mu"),
     GetPerformanceStats |-> Shared("MetricsTracker.mu"),
     Reset |-> Exclusive("MetricsTracker.mu")]

besideLocks == <<now, powVars, capVars, adVars, obsVars, tuneVars, rlVars, apiVars,
                 mtVars>>

Running(t) == procs[t].pc = "run"

\* the locking step goroutine t is at
Pending(t) == LockPrograms[procs[t].op][procs[t].at]

\* t has done its step: it moves on, and returns after the last one
Advanced(t) ==
    IF procs[t].at = Len(LockPrograms[procs[t].op]) THEN Resting
    ELSE [procs[t] EXCEPT !.at = @ + 1, !.pending = FALSE]

\* goroutine t enters a call
Call(t, op) ==
    /\ procs[t].pc = "idle"
    /\ procs' = [procs EXCEPT ![t] = [pc |-> "run", op |-> op, at |-> 1,
                                      pending |-> FALSE]]
    /\ UNCHANGED <<locks, besideLocks>>

\* mu.Lock(), first half: no other writer holds or awaits the mutex; new
\* readers are shut out from here on
Announce(t) ==
    /\ Running(t)
    /\ Pending(t).kind = "Lock"
    /\ ~procs[t].pending
    /\ locks[Pending(t).mutex].w = 0
    /\ locks' = [locks EXCEPT ![Pending(t).mutex].w = t]
    /\ procs' = [procs EXCEPT ![t].pending = TRUE]
    /\ UNCHANGED besideLocks

\* mu.Lock(), second half: the readers have left
Lock(t) ==
    /\ Running(t)
    /\ Pending(t).kind = "Lock"
    /\ procs[t].pending
    /\ locks[Pending(t).mutex].readers = {}
    /\ procs' = [procs EXCEPT ![t] = Advanced(t)]
    /\ UNCHANGED <<locks, besideLocks>>

\* mu.RLock()
RLock(t) ==
    /\ Running(t)
    /\ Pending(t).kind = "RLock"
    /\ locks[Pending(t).mutex].w = 0
    /\ locks' = [locks EXCEPT ![Pending(t).mutex].readers = @ \cup {t}]
    /\ procs' = [procs EXCEPT ![t] = Advanced(t)]
    /\ UNCHANGED besideLocks

\* mu.Unlock()
Unlock(t) ==
    /\ Running(t)
    /\ Pending(t).kind = "Unlock"
    /\ locks' = [locks EXCEPT ![Pending(t).mutex].w = 0]
    /\ procs' = [procs EXCEPT ![t] = Advanced(t)]
    /\ UNCHANGED besideLocks

\* mu.RUnlock()
RUnlock(t) ==
    /\ Running(t)
    /\ Pending(t).kind = "RUnlock"
    /\ locks' = [locks EXCEPT ![Pending(t).mutex].readers = @ \ {t}]
    /\ procs' = [procs EXCEPT ![t] = Advanced(t)]
    /\ UNCHANGED besideLocks

-----------------------------------------------------------------------------
(* The detector's callers, and the specifications *)

\* trackers and blocks after NewAbuseDetector
AdConstructed ==
    /\ ipAttempts = << >>
    /\ addressAttempts = << >>
    /\ blockedIPs = << >>
    /\ blockedAddrs = << >>
    /\ adRes = NoAdRes
    /\ capBlock = << >>

\* the detector while another engine runs
AdInitIdle ==
    /\ AdConstructed
    /\ config = NewAbuseDetector([MaxAttemptsPerHour |-> 0, MaxAttemptsPerDay |-> 0,
                                  BlockDuration |-> 0, SubnetCheckEnabled |-> FALSE,
                                  VPNDetectionEnabled |-> FALSE,
                                  SuspiciousThreshold |-> 0])
    /\ peers = {}
    /\ cyc = << >>

\* the engine while another one runs
PowInitIdle ==
    /\ challenges = << >>
    /\ difficulty = NewProofOfWork(0)
    /\ nextChallenge = 0
    /\ powRes = NoPowRes
    /\ powHist = << >>
    /\ adaptive = NewAdaptiveDifficulty(NewProofOfWork(0))
    /\ tuned = FALSE


PowInit ==
    /\ now = 0
    /\ SideInitIdle
    /\ WebInitIdle
    /\ challenges = << >>
    /\ difficulty \in {NewProofOfWork(d) : d \in InitDifficulties}
    /\ nextChallenge = 0
    /\ powRes = NoPowRes
    /\ powHist = << >>
    /\ adaptive = NewAdaptiveDifficulty(NewProofOfWork(0))
    /\ tuned = FALSE
    /\ CapInitIdle
    /\ AdInitIdle

PowNext ==
    \/ \E nonce \in Nonces : GenerateChallenge(nonce) /\ UNCHANGED tuned
    \/ \E id \in PowIDs, s \in Candidates : Verify(id, s) /\ UNCHANGED tuned
    \/ \E id \in PowIDs : GetChallenge(id) /\ UNCHANGED tuned
    \/ \E d \in Difficulties : SetDifficulty(d) /\ UNCHANGED tuned
    \/ PowCleanup /\ UNCHANGED tuned
    \/ PowTick /\ UNCHANGED tuned

SpecPow == PowInit /\ [][PowNext]_vars

\* --- the controller: loads around the thresholds, one challenge in the
\* store at a time, the clock stands still
BaseDifficulties == {2, 3}
Loads == {10, 25, 60, 61, 75, 100}

AdaptiveInit ==
    /\ now = 0
    /\ SideInitIdle
    /\ WebInitIdle
    /\ challenges = << >>
    /\ difficulty \in {NewProofOfWork(d) : d \in InitDifficulties}
    /\ nextChallenge = 0
    /\ powRes = NoPowRes
    /\ powHist = << >>
    /\ adaptive \in {NewAdaptiveDifficulty(b) : b \in BaseDifficulties}
    /\ tuned = FALSE
    /\ CapInitIdle
    /\ AdInitIdle

AdaptiveNext ==
    \/ \E load \in Loads : UpdateLoad(load) /\ tuned' = TRUE
    \/ \E d \in Difficulties : SetDifficulty(d) /\ tuned' = FALSE
    \/ \E nonce \in Nonces :
         /\ challenges = << >>
         /\ GenerateChallenge(nonce)
         /\ UNCHANGED tuned
    \/ \E id \in PowIDs, s \in Candidates : Verify(id, s) /\ UNCHANGED tuned

SpecAdaptive == AdaptiveInit /\ [][AdaptiveNext]_vars

CaptchaInit ==
    /\ now = 0
    /\ SideInitIdle
    /\ WebInitIdle
    /\ CapInit
    /\ PowInitIdle
    /\ AdInitIdle

CaptchaNext ==
    \/ Generate
    \/ \E id \in CapIDs, answer \in Answers : Validate(id, answer)
    \/ CapCleanup
    \/ CapTick

SpecCaptcha == CaptchaInit /\ [][CaptchaNext]_vars

Unseen == [ph |-> "unseen", n |-> 0, t0 |-> 0]
Off == [ph |-> "off", n |-> 0, t0 |-> 0]

CapReasons == {"Too many requests from this IP (hourly limit exceeded)",
               "Daily request limit exceeded"}

\* history kept along CheckRequest(ip, _)
ObserveCheck(ip) ==
    /\ cyc' = [cyc EXCEPT ![ip] =
                 IF @.ph = "unseen" THEN [ph |-> "checked", n |-> 0, t0 |-> now]
                 ELSE IF /\ @.ph = "recorded"
                         /\ @.n < config.MaxAttemptsPerHour
                         /\ now - @.t0 < Hour
                      THEN [ph |-> "checked", n |-> @.n, t0 |-> @.t0]
                 ELSE IF /\ @.ph = "recorded"
                         /\ @.n = config.MaxAttemptsPerHour
                         /\ now - @.t0 < Hour
                      THEN [ph |-> "capped", n |-> @.n, t0 |-> @.t0]
                 ELSE Off]
    /\ capBlock' = IF adRes'.Reason \in CapReasons
                   THEN Put(capBlock, ip, [until |-> now + config.BlockDuration,
                                           touched |-> FALSE])
                   ELSE IF ip \in DOMAIN capBlock /\ ~(now < capBlock[ip].until)
                        THEN Remove(capBlock, ip)
                   ELSE capBlock
    /\ UNCHANGED procs

\* history kept along RecordAttempt(ip, _, _)
ObserveRecord(ip) ==
    /\ cyc' = [cyc EXCEPT ![ip] =
                 IF @.ph = "checked" /\ now - @.t0 < Hour
                 THEN [ph |-> "recorded", n |-> @.n + 1, t0 |-> @.t0]
                 ELSE Off]
    /\ UNCHANGED <<capBlock, procs>>

\* history kept along BlockIP(ip, _), UnblockIP(ip)
Touch(ip) ==
    IF ip \in DOMAIN capBlock THEN [capBlock EXCEPT ![ip].touched = TRUE]
    ELSE capBlock

ObserveBlockIP(ip) ==
    /\ cyc' = [cyc EXCEPT ![ip] = Off]
    /\ capBlock' = Touch(ip)
    /\ UNCHANGED procs

ObserveUnblockIP(ip) ==
    /\ capBlock' = Touch(ip)
    /\ UNCHANGED <<cyc, procs>>

\* --- the caps: one peer, two addresses, the clock moves
Addresses == {"aura1x", "aura1y"}
AbusePeers == {Dotted(203, 0, 113, 5)}
AbuseConfigs == [MaxAttemptsPerHour : {2}, MaxAttemptsPerDay : {3},
                 BlockDuration : {2 * Hour}, SubnetCheckEnabled : {FALSE},
                 VPNDetectionEnabled : {FALSE}, SuspiciousThreshold : {1}]
BlockDurations == {0, Hour}
AbuseInstants == {0, Hour, 2 * Hour}

AbuseInit ==
    /\ now = 0
    /\ SideInitIdle
    /\ WebInitIdle
    /\ PowInitIdle
    /\ CapInitIdle
    /\ AdConstructed
    /\ config \in {NewAbuseDetector(c) : c \in AbuseConfigs}
    /\ peers = AbusePeers
    /\ cyc = [ip \in AbusePeers |-> Unseen]

AbuseNext ==
    \/ \E ip \in peers, a \in Addresses : CheckRequest(ip, a) /\ ObserveCheck(ip)
    \/ \E ip \in peers, a \in Addresses, success \in BOOLEAN :
         Recordable(ip) /\ RecordAttempt(ip, a, success) /\ ObserveRecord(ip)
    \/ \E ip \in peers, d \in BlockDurations : BlockIP(ip, d) /\ ObserveBlockIP(ip)
    \/ \E ip \in peers : UnblockIP(ip) /\ ObserveUnblockIP(ip)
    \/ AbuseCleanup /\ UNCHANGED <<cyc, capBlock, procs>>
    \/ AbuseTick(AbuseInstants) /\ UNCHANGED <<cyc, capBlock, procs>>

SpecAbuse == AbuseInit /\ [][AbuseNext]_vars

\* --- the blocks: one peer, two addresses, one attempt in a window
BlockPeers == {Dotted(198, 51, 100, 7)}
BlockConfigs == [MaxAttemptsPerHour : {0}, MaxAttemptsPerDay : {0},
                 BlockDuration : {2 * Hour}, SubnetCheckEnabled : {FALSE},
                 VPNDetectionEnabled : {FALSE}, SuspiciousThreshold : {0}]
BlockInstants == {0, Hour, 2 * Hour}

BlocksInit ==
    /\ now = 0
    /\ SideInitIdle
    /\ WebInitIdle
    /\ PowInitIdle
    /\ CapInitIdle
    /\ AdConstructed
    /\ config \in {NewAbuseDetector(c) : c \in BlockConfigs}
    /\ peers = BlockPeers
    /\ cyc = [ip \in BlockPeers |-> Off]

BlocksNext ==
    \/ \E ip \in peers, a \in Addresses :
         CheckRequest(ip, a) /\ UNCHANGED <<cyc, capBlock, procs>>
    \/ \E ip \in peers, a \in Addresses :
         /\ IF ip \in DOMAIN ipAttempts THEN ipAttempts[ip].Count = 0 ELSE TRUE
         /\ Recordable(ip)
         /\ RecordAttempt(ip, a, TRUE)
         /\ UNCHANGED <<cyc, capBlock, procs>>
    \/ \E ip \in peers, d \in BlockDurations :
         BlockIP(ip, d) /\ UNCHANGED <<cyc, capBlock, procs>>
    \/ \E a \in Addresses : BlockAddress(a, 0) /\ UNCHANGED <<cyc, capBlock, procs>>
    \/ \E ip \in peers : UnblockIP(ip) /\ UNCHANGED <<cyc, capBlock, procs>>
    \/ \E a \in Addresses : UnblockAddress(a) /\ UNCHANGED <<cyc, capBlock, procs>>
    \/ AbuseCleanup /\ UNCHANGED <<cyc, capBlock, procs>>
    \/ AbuseTick(BlockInstants) /\ UNCHANGED <<cyc, capBlock, procs>>

SpecBlocks == BlocksInit /\ [][BlocksNext]_vars

\* --- subnets and private ranges: many peers, one instant
V6(k) == Colon(<<32, 1, 13, 184, 0, 0, 0, 0, 0, 0, 0, 0, 0, 0, 0, k>>)
V4Peers == {Dotted(10, 0, 0, k) : k \in 1 .. 6}
             \cup {Mapped(10, 0, 0, 7), Dotted(172, 31, 0, 1), Dotted(192, 168, 0, 1)}
OtherPeers == {V6(k) : k \in 1 .. 6}
                \cup {Colon(<<32, 1, 13, 184, 0, 0, 0, 1, 0, 0, 0, 0, 0, 0, 0, 1>>),
                      Bad}
NetRecorders == {Dotted(10, 0, 0, 1)}
NetConfigs == [MaxAttemptsPerHour : {3}, MaxAttemptsPerDay : {0},
               BlockDuration : {0}, SubnetCheckEnabled : {TRUE},
               VPNDetectionEnabled : {TRUE}, SuspiciousThreshold : {1}]

NetInit ==
    /\ now = 0
    /\ SideInitIdle
    /\ WebInitIdle
    /\ PowInitIdle
    /\ CapInitIdle
    /\ AdConstructed
    /\ config \in {NewAbuseDetector(c) : c \in NetConfigs}
    /\ peers \in {V4Peers, OtherPeers}
    /\ cyc = << >>

NetNext ==
    \/ \E ip \in peers : CheckRequest(ip, "aura1x") /\ UNCHANGED <<cyc, capBlock, procs>>
    \/ \E ip \in peers \cap NetRecorders, a \in Addresses :
         Recordable(ip) /\ RecordAttempt(ip, a, TRUE)
             /\ UNCHANGED <<cyc, capBlock, procs>>

SpecNet == NetInit /\ [][NetNext]_vars

\* --- the limiter alone: the two limiters of its tests, two IPs and an
\* address, the store comes and goes, the clock moves about one window
LimiterConfigs ==
    {[per_ip |-> 2, per_address |-> 1, window |-> Minute],
     [per_ip |-> 1, per_address |-> 1, window |-> Second]}
LimiterIDs == [ip |-> {"192.0.2.1", "192.0.2.9"}, address |-> {"aura1addr"}]
LimiterInstants == {0, 1, limits.window, limits.window + 1}

\* the increments that succeeded on a key, oldest first
LogOf(kind, id) == IF id \in DOMAIN incLog[kind] THEN incLog[kind][id] ELSE << >>

RECURSIVE SumLen(_, _)
SumLen(log, ids) ==
    IF ids = {} THEN 0
    ELSE LET id == CHOOSE x \in ids : TRUE
         IN  Len(log[id]) + SumLen(log, ids \ {id})

Increments == SumLen(incLog["ip"], DOMAIN incLog["ip"])
              + SumLen(incLog["address"], DOMAIN incLog["address"])

Logged(kind, id) ==
    incLog' = IF storeUp
              THEN [incLog EXCEPT ![kind] = Put(@, id, Append(LogOf(kind, id), now))]
              ELSE incLog

LimiterInit ==
    /\ now = 0
    /\ SideInitIdle
    /\ PowInitIdle
    /\ CapInitIdle
    /\ AdInitIdle
    /\ ApiInitIdle
    /\ counters = EmptyStore
    /\ storeUp = TRUE
    /\ limits \in {NewRateLimiter(c) : c \in LimiterConfigs}
    /\ rlRes = NoRlRes
    /\ incLog = EmptyStore

LimiterNext ==
    \/ \E ip \in LimiterIDs["ip"] : CheckIPLimit(ip) /\ UNCHANGED incLog
    \/ \E address \in LimiterIDs["address"] :
          CheckAddressLimit(address) /\ UNCHANGED incLog
    \/ \E ip \in LimiterIDs["ip"] :
          /\ Increments < MaxIncrements
          /\ IncrementIPCounter(ip)
          /\ Logged("ip", ip)
    \/ \E address \in LimiterIDs["address"] :
          /\ Increments < MaxIncrements
          /\ IncrementAddressCounter(address)
          /\ Logged("address", address)
    \/ StoreFails /\ UNCHANGED incLog
    \/ StoreRecovers /\ UNCHANGED incLog
    \/ WebTick(LimiterInstants) /\ UNCHANGED incLog

SpecLimiter == LimiterInit /\ [][LimiterNext]_vars

\* --- the handler as main wires it: with and without the database and the
\* store, two configurations, concurrent calls of RequestTokens within one
\* window of the limiter (the clock stands still)
HandlerConfigs ==
    {[RequireCaptcha |-> FALSE, TurnstileSecret |-> FALSE,
      AllowedIPs |-> << >>, AllowedAddresses |-> << >>,
      MaxRecipientBalance |-> 0],
     [RequireCaptcha |-> TRUE, TurnstileSecret |-> TRUE,
      AllowedIPs |-> <<Entry(Dotted(10, 0, 0, 0), 8)>>,
      AllowedAddresses |-> <<"aura1ok">>,
      MaxRecipientBalance |-> 10]}
DatabaseURLs == {"", "up"}
RedisURLs == {"", "down", "up"}
HandlerLimits == [per_ip |-> 2, per_address |-> 1, window |-> Minute]
HandlerIPs == {Dotted(10, 0, 0, 1), Dotted(192, 0, 2, 1)}
HandlerAddresses == {"aura1ok", "aura1no", "bad"}
Balances == {Balance(0, TRUE), Balance(0, FALSE), Balance(10, FALSE)}

\* what a request brings; the provider is asked only when a captcha is required
RequestInputs ==
    {[body |-> FALSE, ip |-> Dotted(10, 0, 0, 1), address |-> "", captcha |-> TRUE]}
    \cup [body : {TRUE}, ip : HandlerIPs, address : HandlerAddresses,
          captcha : IF handler.cfg.RequireCaptcha THEN BOOLEAN ELSE {TRUE}]

HandlerInit ==
    /\ now = 0
    /\ SideInitIdle
    /\ PowInitIdle
    /\ CapInitIdle
    /\ AdInitIdle
    /\ counters = EmptyStore
    /\ storeUp = TRUE
    /\ limits = NewRateLimiter(HandlerLimits)
    /\ rlRes = NoRlRes
    /\ incLog = EmptyStore
    /\ handler \in {Wired(c, d, u) : c \in HandlerConfigs, d \in DatabaseURLs,
                                     u \in RedisURLs}
    /\ reqs = [r \in 1..MaxRequests |-> Idle]
    /\ sent = << >>

HandlerNext ==
    \/ \E r \in 1..MaxRequests : \E in \in RequestInputs :
          /\ IF r = 1 THEN TRUE ELSE reqs[r - 1].pc # "idle"
          /\ Begin(r, in)
          /\ UNCHANGED incLog
    \/ \E r \in 1..MaxRequests : CheckIP(r) /\ UNCHANGED incLog
    \/ \E r \in 1..MaxRequests : CheckAddress(r) /\ UNCHANGED incLog
    \/ \E r \in 1..MaxRequests : \E found \in {"none", "rows", "err"} :
          \E balance \in IF handler.cfg.MaxRecipientBalance > 0 /\ found # "rows"
                          THEN Balances ELSE {Balance(0, FALSE)} :
          \E sendErr \in IF Unfunded(found, balance) = NoAnswer
                          THEN BOOLEAN ELSE {FALSE} :
              Send(r, found, balance, sendErr) /\ UNCHANGED incLog
    \/ \E r \in 1..MaxRequests : IncrementIP(r) /\ UNCHANGED incLog
    \/ \E r \in 1..MaxRequests : IncrementAddress(r) /\ UNCHANGED incLog
    \/ handler.rateLimiter = "redis" /\ StoreFails /\ UNCHANGED incLog
    \/ StoreRecovers /\ UNCHANGED incLog

SpecHandler == HandlerInit /\ [][HandlerNext]_vars

\* --- the handler over the rows its own sends leave in the database, which
\* answers every call: SendTokens has CreateRequest insert a row for the
\* recipient before the broadcast and marks it failed or successful after it
\* (part_001:89, 114, 121); GetRequestsByAddress selects the recipient's rows
\* created since the given time, whatever their status
\* (database_test.go:127-132).  The clock stands still, every row is under 24
\* hours old.
Rows(address) == {r \in DOMAIN sent : sent[r].Recipient = address}
GetRequestsByAddress(address) == IF Rows(address) = {} THEN "none" ELSE "rows"

HistoryNext ==
    \/ \E r \in 1..MaxRequests : \E in \in RequestInputs :
          /\ IF r = 1 THEN TRUE ELSE reqs[r - 1].pc # "idle"
          /\ Begin(r, in)
          /\ UNCHANGED incLog
    \/ \E r \in 1..MaxRequests : CheckIP(r) /\ UNCHANGED incLog
    \/ \E r \in 1..MaxRequests : CheckAddress(r) /\ UNCHANGED incLog
    \/ \E r \in 1..MaxRequests :
          /\ reqs[r].pc = "send"
          /\ LET found == GetRequestsByAddress(reqs[r].in.address)
             IN  \E balance \in IF handler.cfg.MaxRecipientBalance > 0 /\ found # "rows"
                                 THEN Balances ELSE {Balance(0, FALSE)} :
                 \E sendErr \in IF Unfunded(found, balance) = NoAnswer
                                 THEN BOOLEAN ELSE {FALSE} :
                     Send(r, found, balance, sendErr) /\ UNCHANGED incLog
    \/ \E r \in 1..MaxRequests : IncrementIP(r) /\ UNCHANGED incLog
    \/ \E r \in 1..MaxRequests : IncrementAddress(r) /\ UNCHANGED incLog
    \/ handler.rateLimiter = "redis" /\ StoreFails /\ UNCHANGED incLog
    \/ StoreRecovers /\ UNCHANGED incLog

SpecHistory == HandlerInit /\ [][HistoryNext]_vars

\* --- the tracker alone: requests from two IPs for two addresses, succeeding
\* or failing, blocked requests, summaries
MetricIPs == {"192.0.2.10", "192.0.2.11"}
BlockedPeers == {"192.0.2.10"}
MetricAddresses == {"aura1first", "aura1second"}
Outcomes == {[Success |-> TRUE, ErrorType |-> ""],
             [Success |-> FALSE, ErrorType |-> "captcha_failed"]}
MetricInstants == {Hour}
Limits == {1, TopCount}

Request(ip, address, outcome, responseTime) ==
    [IP |-> ip, Address |-> address, Amount |-> 1000000,
     Success |-> outcome.Success, ErrorType |-> outcome.ErrorType,
     ResponseTime |-> responseTime, Timestamp |-> now,
     CaptchaSolved |-> FALSE, POWCompleted |-> FALSE]

\* the Record calls since the last Reset
Recordings == Len(mtHist.requests) + Len(mtHist.blocked)

MetricsInit ==
    /\ now = 0
    /\ PowInitIdle
    /\ CapInitIdle
    /\ AdInitIdle
    /\ WebInitIdle
    /\ RunInitIdle
    /\ metricsTracker = NewMetricsTracker(now)
    /\ mtRes = NoMtRes
    /\ mtHist = NoHistory

MetricsNext ==
    \/ \E ip \in MetricIPs, address \in MetricAddresses, outcome \in Outcomes :
          LET m == Request(ip, address, outcome, 20 * NanosPerMillisecond)
          IN  /\ Recordings < MaxRecorded
              /\ RecordRequest(m)
              /\ mtHist' = [mtHist EXCEPT !.requests = Append(@, m)]
    \/ \E ip \in BlockedPeers :
          /\ Recordings < MaxRecorded
          /\ RecordBlocked(ip)
          /\ mtHist' = [mtHist EXCEPT !.blocked = Append(@, ip)]
    \/ GetSummary /\ UNCHANGED mtHist
    \/ GetHourlyStats /\ UNCHANGED mtHist
    \/ GetDailyStats /\ UNCHANGED mtHist
    \/ GetErrorStats /\ UNCHANGED mtHist
    \/ \E limit \in Limits : GetTopRecipients(limit) /\ UNCHANGED mtHist
    \/ GetPerformanceStats /\ UNCHANGED mtHist
    \/ Reset /\ mtHist' = NoHistory
    \/ MtTick(MetricInstants)

SpecMetrics == MetricsInit /\ [][MetricsNext]_vars

\* --- the tracker's response times: a tracker that is new, or one that has
\* recorded ShortSeries or MaxSamples - 1 requests already, records a few more
SeriesTimes == {1500000, 20 * NanosPerMillisecond, 40 * NanosPerMillisecond}
Served == [Success |-> TRUE, ErrorType |-> ""]

\* the tracker after n requests recorded before the behaviour starts: failed
\* ones from one IP at the instant now, the i-th answered after i nanoseconds
\* (n <= MaxSamples)
AfterEarlier(n) ==
    IF n = 0 THEN NewMetricsTracker(now)
    ELSE [NewMetricsTracker(now) EXCEPT
             !.totalRequests = n,
             !.failedRequests = n,
             !.uniqueIPs = {"192.0.2.10"},
             !.requestsPerHour = Put(<< >>, HourOf(now), n),
             !.requestsPerDay = Put(<< >>, DateOf(now), n),
             !.responseTimes = [i \in 1..n |-> i],
             !.maxResponseTime = n,
             !.avgResponseTime = Total([i \in 1..n |-> i], 1, n) \div n]

SeriesInit ==
    /\ now = 0
    /\ PowInitIdle
    /\ CapInitIdle
    /\ AdInitIdle
    /\ WebInitIdle
    /\ RunInitIdle
    /\ \E n \in {0, ShortSeries, MaxSamples - 1} :
          /\ metricsTracker = AfterEarlier(n)
          /\ mtHist = [NoHistory EXCEPT !.earlier = n]
    /\ mtRes = NoMtRes

\* percentiles are asked for while the series is short
SeriesNext ==
    \/ \E responseTime \in SeriesTimes :
          LET m == Request("192.0.2.10", "aura1first", Served, responseTime)
          IN  /\ Len(mtHist.requests) < MaxRecorded
              /\ RecordRequest(m)
              /\ mtHist' = [mtHist EXCEPT !.requests = Append(@, m)]
    \/ /\ Len(metricsTracker.responseTimes) < KeptSamples
       /\ GetPerformanceStats
       /\ UNCHANGED mtHist
    \/ GetSummary /\ UNCHANGED mtHist

SpecSeries == SeriesInit /\ [][SeriesNext]_vars

\* --- the engine under concurrent Verify calls
VerifyRaceInit ==
    /\ now = 0
    /\ MtInitIdle
    /\ WebInitIdle
    /\ CapInitIdle
    /\ AdInitIdle
    /\ challenges = << >>
    /\ difficulty \in {NewProofOfWork(d) : d \in InitDifficulties}
    /\ nextChallenge = 0
    /\ powRes = NoPowRes
    /\ powHist = << >>
    /\ adaptive = NewAdaptiveDifficulty(NewProofOfWork(0))
    /\ tuned = FALSE
    /\ procs = [t \in Callers |-> Resting]
    /\ locks = << >>

VerifyRaceNext ==
    \/ \E nonce \in Nonces : GenerateChallenge(nonce) /\ UNCHANGED tuned
    \/ \E t \in Callers, id \in PowIDs, s \in Candidates : VerifyLookup(t, id, s)
    \/ \E t \in Callers : VerifyJudge(t)
    \/ \E t \in Callers : VerifyEvict(t)
    \/ PowCleanup /\ UNCHANGED tuned
    \/ PowTick /\ UNCHANGED tuned

SpecVerifyRace == VerifyRaceInit /\ [][VerifyRaceNext]_vars

\* --- the CAPTCHA service under concurrent Validate calls
RaceAnswers == {<<"A", "A">>, <<"A", "B">>}

ValidateRaceInit ==
    /\ now = 0
    /\ MtInitIdle
    /\ WebInitIdle
    /\ CapInit
    /\ PowInitIdle
    /\ AdInitIdle
    /\ procs = [t \in Callers |-> Resting]
    /\ locks = << >>

ValidateRaceNext ==
    \/ Generate
    \/ \E t \in Callers, id \in CapIDs, answer \in RaceAnswers :
          ValidateGet(t, id, answer)
    \/ \E t \in Callers : ValidateJudge(t)
    \/ \E t \in Callers : ValidateDelete(t)
    \/ CapCleanup
    \/ CapTick

SpecValidateRace == ValidateRaceInit /\ [][ValidateRaceNext]_vars

\* --- the detector under concurrent requests from one IP; cyc[ip].n is the
\* most requests of the IP that were in flight at once
RacePeers == {Dotted(203, 0, 113, 5)}
RaceConfigs == [MaxAttemptsPerHour : {1, 2}, MaxAttemptsPerDay : {50},
                BlockDuration : {2 * Hour}, SubnetCheckEnabled : {FALSE},
                VPNDetectionEnabled : {FALSE}, SuspiciousThreshold : {5}]
RaceInstants == {Hour - 1, Hour}

\* history kept along the callers' steps
ObserveFlight(ip) ==
    /\ cyc' = [cyc EXCEPT ![ip].n =
                 LET flying == {t \in Callers : /\ procs'[t].pc = "admitted"
                                                /\ procs'[t].ip = ip}
                 IN  IF Cardinality(flying) > @ THEN Cardinality(flying) ELSE @]
    /\ UNCHANGED capBlock

AbuseRaceInit ==
    /\ now = 0
    /\ MtInitIdle
    /\ WebInitIdle
    /\ PowInitIdle
    /\ CapInitIdle
    /\ AdConstructed
    /\ config \in {NewAbuseDetector(c) : c \in RaceConfigs}
    /\ peers = RacePeers
    /\ cyc = [ip \in RacePeers |-> [ph |-> "flights", n |-> 0, t0 |-> 0]]
    /\ procs = [t \in Callers |-> Resting]
    /\ locks = << >>

AbuseRaceNext ==
    \/ \E t \in Callers, ip \in peers, a \in Addresses :
          Admission(t, ip, a) /\ ObserveFlight(ip)
    \/ \E t \in Callers, success \in BOOLEAN :
          Completion(t, success) /\ UNCHANGED <<cyc, capBlock>>
    \/ AbuseCleanup /\ UNCHANGED <<cyc, capBlock, procs>>
    \/ AbuseTick(RaceInstants) /\ UNCHANGED <<cyc, capBlock, procs>>

SpecAbuseRace == AbuseRaceInit /\ [][AbuseRaceNext]_vars

\* --- the mutexes under goroutines that each make one call after another
LocksInit ==
    /\ now = 0
    /\ MtInitIdle
    /\ WebInitIdle
    /\ PowInitIdle
    /\ CapInitIdle
    /\ AdInitIdle
    /\ procs = [t \in Callers |-> Resting]
    /\ locks = [m \in Mutexes |-> Free]

LocksNext ==
    \/ \E t \in Callers, op \in DOMAIN LockPrograms : Call(t, op)
    \/ \E t \in Callers : Announce(t)
    \/ \E t \in Callers : Lock(t)
    \/ \E t \in Callers : RLock(t)
    \/ \E t \in Callers : Unlock(t)
    \/ \E t \in Callers : RUnlock(t)

SpecLocks == LocksInit /\ [][LocksNext]_vars

\* --- the detector over more than a day: one peer, two addresses.  The
\* instants are hours apart and the sweeper's ticker fires every hour: when
\* the clock has moved, the sweeper goroutine procs[Sweeper] is due a round,
\* and that round is over before the next call comes in
Sweeper == 1
DetectorPeers == AbusePeers
DetectorConfigs == [MaxAttemptsPerHour : {2}, MaxAttemptsPerDay : {2},
                    BlockDuration : {13 * Hour}, SubnetCheckEnabled : {FALSE},
                    VPNDetectionEnabled : {FALSE}, SuspiciousThreshold : {1}]
DetectorInstants == {0, 2 * Hour, 13 * Hour, 26 * Hour}

\* history: the instants of the attempts recorded for each IP
NoAttempts == [ph |-> "log", at |-> << >>]
ObserveAttempt(ip) == cyc' = [cyc EXCEPT ![ip].at = Append(@, now)]

DetectorInit ==
    /\ now = 0
    /\ MtInitIdle
    /\ WebInitIdle
    /\ PowInitIdle
    /\ CapInitIdle
    /\ AdConstructed
    /\ config \in {NewAbuseDetector(c) : c \in DetectorConfigs}
    /\ peers = DetectorPeers
    /\ cyc = [ip \in DetectorPeers |-> NoAttempts]
    /\ procs = <<[pc |-> "slept"]>>
    /\ locks = << >>

Swept == procs[Sweeper].pc = "slept"

DetectorNext ==
    \/ \E ip \in peers, a \in Addresses :
         Swept /\ CheckRequest(ip, a) /\ UNCHANGED <<cyc, capBlock, procs>>
    \/ \E ip \in peers, a \in Addresses, success \in BOOLEAN :
         /\ Swept
         /\ Len(cyc[ip].at) < MaxSwept
         /\ Recordable(ip)
         /\ RecordAttempt(ip, a, success)
         /\ ObserveAttempt(ip)
         /\ UNCHANGED <<capBlock, procs>>
    \/ Swept /\ BlockAddress("aura1y", 0) /\ UNCHANGED <<cyc, capBlock, procs>>
    \/ /\ ~Swept
       /\ AbuseCleanup
       /\ procs' = [procs EXCEPT ![Sweeper].pc = "slept"]
       /\ UNCHANGED <<cyc, capBlock>>
    \/ /\ AbuseTick(DetectorInstants)
       /\ procs' = [procs EXCEPT ![Sweeper].pc = "due"]
       /\ UNCHANGED <<cyc, capBlock>>

SpecDetector == DetectorInit /\ [][DetectorNext]_vars

\* --- the trackers of two peers about the end of an hourly window: the
\* second peer only ever succeeds for one address.  cyc is the call made last.
TrackerPeers == AbusePeers \cup BlockPeers
TrackerInstants == {0, Hour}

Called(op, ip, address, success) ==
    [op |-> op, ip |-> ip, address |-> address, success |-> success]
NoCall == Called("none", Bad, "", FALSE)

\* attempts recorded so far, all IPs together
RECURSIVE Recorded(_, _)
Recorded(attempts, ips) ==
    IF ips = {} THEN 0
    ELSE LET ip == CHOOSE i \in ips : TRUE
         IN  attempts[ip].SuccessfulCount + attempts[ip].FailedCount
                 + Recorded(attempts, ips \ {ip})

TrackersInit ==
    /\ now = 0
    /\ SideInitIdle
    /\ WebInitIdle
    /\ PowInitIdle
    /\ CapInitIdle
    /\ AdConstructed
    /\ config \in {NewAbuseDetector(c) : c \in AbuseConfigs}
    /\ peers = TrackerPeers
    /\ cyc = NoCall

TrackersNext ==
    \/ \E ip \in peers, a \in Addresses :
         /\ CheckRequest(ip, a)
         /\ cyc' = Called("CheckRequest", ip, a, FALSE)
         /\ UNCHANGED <<capBlock, procs>>
    \/ \E ip \in peers, a \in Addresses, success \in BOOLEAN :
         /\ ip \in BlockPeers => a = "aura1x" /\ success
         /\ Recorded(ipAttempts, DOMAIN ipAttempts) < MaxRecords
         /\ Recordable(ip)
         /\ RecordAttempt(ip, a, success)
         /\ cyc' = Called("RecordAttempt", ip, a, success)
         /\ UNCHANGED <<capBlock, procs>>
    \/ BlockAddress("aura1y", 0) /\ cyc' = NoCall /\ UNCHANGED <<capBlock, procs>>
    \/ AbuseTick(TrackerInstants) /\ cyc' = NoCall /\ UNCHANGED <<capBlock, procs>>

SpecTrackers == TrackersInit /\ [][TrackersNext]_vars

\* --- the risk score: one requester, in a private range or not; its
\* attempts go to a growing list of addresses, at 0 or a minute later.  Where
\* the subnet check is on, five neighbours of the private /24 have each made
\* one CheckRequest before the run begins.
RiskPeers == {Dotted(10, 0, 0, 1), Dotted(203, 0, 113, 5)}
Neighbours == {Dotted(10, 0, 0, k) : k \in 2 .. 6}
RiskAddresses == <<"aura1v", "aura1w", "aura1x", "aura1y", "aura1z">>
RiskConfigs ==
    {[MaxAttemptsPerHour |-> 0, MaxAttemptsPerDay |-> 0, BlockDuration |-> 0,
      SubnetCheckEnabled |-> FALSE, VPNDetectionEnabled |-> TRUE,
      SuspiciousThreshold |-> 4],
     [MaxAttemptsPerHour |-> 4, MaxAttemptsPerDay |-> 0, BlockDuration |-> 0,
      SubnetCheckEnabled |-> FALSE, VPNDetectionEnabled |-> TRUE,
      SuspiciousThreshold |-> 1],
     [MaxAttemptsPerHour |-> 0, MaxAttemptsPerDay |-> 0, BlockDuration |-> 0,
      SubnetCheckEnabled |-> TRUE, VPNDetectionEnabled |-> TRUE,
      SuspiciousThreshold |-> 1]}
RiskInstants == {0, Minute}

\* the addresses the requester has used so far, and the next one of the list
Used(ip) ==
    IF ip \in DOMAIN ipAttempts THEN Cardinality(DOMAIN ipAttempts[ip].Addresses)
    ELSE 0
Usable(ip) == {RiskAddresses[i] : i \in 1 .. IF Used(ip) < Len(RiskAddresses)
                                              THEN Used(ip) + 1 ELSE Used(ip)}

RiskInit ==
    /\ now = 0
    /\ SideInitIdle
    /\ WebInitIdle
    /\ PowInitIdle
    /\ CapInitIdle
    /\ config \in {NewAbuseDetector(c) : c \in RiskConfigs}
    /\ ipAttempts = IF config.SubnetCheckEnabled
                    THEN [ip \in Neighbours |-> NewTracker] ELSE << >>
    /\ addressAttempts = << >>
    /\ blockedIPs = << >>
    /\ blockedAddrs = << >>
    /\ adRes = NoAdRes
    /\ capBlock = << >>
    /\ peers \in {{ip} : ip \in RiskPeers}
    /\ cyc = << >>

RiskNext ==
    \/ \E ip \in peers :
         CheckRequest(ip, RiskAddresses[1]) /\ UNCHANGED <<cyc, capBlock, procs>>
    \/ \E ip \in peers : \E a \in Usable(ip), success \in BOOLEAN :
         /\ Recorded(ipAttempts, DOMAIN ipAttempts) < MaxScored
         /\ RecordAttempt(ip, a, success)
         /\ UNCHANGED <<cyc, capBlock, procs>>
    \/ AbuseTick(RiskInstants) /\ UNCHANGED <<cyc, capBlock, procs>>

SpecRisk == RiskInit /\ [][RiskNext]_vars

\* --- the two expiry sweeps over time: both engines issue challenges and no
\* client ever answers one (Verify and Validate only take entries out), the
\* clock runs through MaxSweepRounds periods of the tickers
\* (proof_of_work.go:48, captcha.go:67) and stops; challenges are issued
\* while their expiry falls before the clock's last instant.  The tickers
\* fire for as long as the process runs and time goes on: the clock and a
\* sweep that has something to do are not put off for ever.
SweepPeriod == 5 * Minute
SweepInstants == {k * SweepPeriod : k \in 0 .. MaxSweepRounds}
LastInstant == MaxSweepRounds * SweepPeriod
\* what the CAPTCHA service is made with
SweepOptions == [Length : {1}, TTL : {0, Minute}, Difficulty : {""}]
Issuable(expiry) == Before(expiry, LastInstant)

SweepsInit ==
    /\ now = 0
    /\ SideInitIdle
    /\ WebInitIdle
    /\ AdInitIdle
    /\ captchas = << >>
    /\ options \in {NewCaptchaService(o) : o \in SweepOptions}
    /\ nextCaptcha = 0
    /\ capRes = NoCapRes
    /\ capHist = << >>
    /\ challenges = << >>
    /\ difficulty \in {NewProofOfWork(d) : d \in InitDifficulties}
    /\ nextChallenge = 0
    /\ powRes = NoPowRes
    /\ powHist = << >>
    /\ adaptive = NewAdaptiveDifficulty(NewProofOfWork(0))
    /\ tuned = FALSE

SweepPow == PowCleanup /\ UNCHANGED tuned
SweepCaptcha == CapCleanup

SweepTick ==
    /\ \E t \in SweepInstants : t > now /\ now' = t
    /\ powRes' = NoPowRes
    /\ capRes' = NoCapRes
    /\ UNCHANGED <<challenges, difficulty, nextChallenge, powHist,
                   captchas, options, nextCaptcha, capHist,
                   adVars, obsVars, tuneVars, rlVars, apiVars, sideVars>>

SweepsNext ==
    \/ \E nonce \in Nonces :
          /\ Issuable(Add(now, ChallengeTTL))
          /\ GenerateChallenge(nonce)
          /\ UNCHANGED tuned
    \/ Issuable(CaptchaExpiry(now)) /\ Generate
    \/ SweepPow
    \/ SweepCaptcha
    \/ SweepTick

SpecSweeps ==
    /\ SweepsInit
    /\ [][SweepsNext]_vars
    /\ WF_vars(SweepTick)
    /\ WF_vars(SweepPow)
    /\ WF_vars(SweepCaptcha)

-----------------------------------------------------------------------------
(* Claims on the proof-of-work engine *)

\* the candidate makes H(nonce || s) start with the challenge's number of zeros
Solves(challenge, s) == verifyHash(computeHash(challenge.Nonce, s), challenge.Difficulty)

\* the step is a call of Verify on a stored challenge
VerifyOnStored(id) ==
    /\ id \in DOMAIN challenges
    /\ powRes'.op = "Verify"
    /\ powRes'.id = id

C1Step ==
    /\ \A id \in DOMAIN challenges :
         ( /\ VerifyOnStored(id)
           /\ ~After(now, challenges[id].ExpiresAt)
           /\ Solves(challenges[id], powRes'.solution) )
         => /\ powRes'.valid
            /\ powRes'.err = ""
            /\ id \notin DOMAIN challenges'
    /\ \A id \in DOMAIN powHist :
         ( /\ powHist[id].fate = "solved"
           /\ powRes'.op \in {"Verify", "GetChallenge"}
           /\ powRes'.id = id )
         => /\ ~powRes'.valid
            /\ powRes'.err = "challenge not found"

\* C1: on an unexpired challenge the first Verify with a candidate that meets
\* the difficulty returns (true, nil) and removes the challenge; every later
\* Verify or GetChallenge on that id answers "challenge not found".
C1_VerifyOnce == [][C1Step]_vars

\* a second Verify with the very candidate that solved the challenge was refused
C1_Witness ==
    /\ powRes.op = "Verify"
    /\ powRes.id \in DOMAIN powHist
    /\ powHist[powRes.id].fate = "solved"
    /\ Solves(powHist[powRes.id], powRes.solution)
    /\ powRes.err = "challenge not found"

C2Step ==
    /\ \A id \in DOMAIN challenges :
         ( /\ VerifyOnStored(id)
           /\ After(now, challenges[id].ExpiresAt) )
         => /\ ~powRes'.valid
            /\ powRes'.err = "challenge expired"
            /\ id \notin DOMAIN challenges'
    /\ \A id \in DOMAIN powHist :
         ( /\ powHist[id].fate = "expired"
           /\ powRes'.op = "Verify"
           /\ powRes'.id = id )
         => /\ ~powRes'.valid
            /\ powRes'.err = "challenge not found"

\* C2: Verify on a stored challenge whose ExpiresAt is before the current time
\* returns (false, "challenge expired") for every candidate and removes the
\* challenge, so that the next Verify on the id answers "challenge not found".
C2_VerifyExpired == [][C2Step]_vars

\* a candidate that meets the difficulty was refused because of the expiry
C2_Witness ==
    /\ powRes.op = "Verify"
    /\ powRes.err = "challenge expired"
    /\ powRes.id \in DOMAIN powHist
    /\ Solves(powHist[powRes.id], powRes.solution)
    /\ powRes.id \notin DOMAIN challenges

C3Step ==
    \A id \in DOMAIN challenges :
        ( /\ VerifyOnStored(id)
          /\ ~After(now, challenges[id].ExpiresAt) )
        => IF ~Solves(challenges[id], powRes'.solution)
           THEN /\ ~powRes'.valid
                /\ powRes'.err = ""
                /\ challenges' = challenges
           ELSE powHist[id].failed => powRes'.valid

\* C3: Verify on a stored, unexpired challenge with a candidate that misses
\* the difficulty returns (false, nil) and leaves the store as it was; after
\* such failed calls a Verify with a good candidate before expiry returns true.
C3_FailedVerifyKeeps == [][C3Step]_vars

\* a challenge was solved after a failed attempt on it
C3_Witness ==
    /\ powRes.op = "Verify"
    /\ powRes.valid
    /\ powRes.id \in DOMAIN powHist
    /\ powHist[powRes.id].failed

-----------------------------------------------------------------------------
(* Claims on the CAPTCHA service *)

\* the step is a call of Validate on a stored CAPTCHA
ValidateOnStored(id) ==
    /\ id \in DOMAIN captchas
    /\ capRes'.op = "Validate"
    /\ capRes'.id = id

C4Step ==
    /\ \A id \in DOMAIN captchas :
         ( /\ ValidateOnStored(id)
           /\ ~After(now, captchas[id].ExpiresAt) )
         => /\ id \notin DOMAIN captchas'
            /\ capRes'.valid <=> (capRes'.solution = captchas[id].Solution)
    /\ \A id \in DOMAIN capHist :
         ( /\ capHist[id].fate \in {"passed", "failed"}
           /\ capRes'.op = "Validate"
           /\ capRes'.id = id )
         => ~capRes'.valid

C5Step ==
    \A id \in DOMAIN captchas :
        ( /\ ValidateOnStored(id)
          /\ After(now, Add(captchas[id].CreatedAt, options.TTL)) )
        => /\ ~capRes'.valid
           /\ id \notin DOMAIN captchas'

\* C5: Validate on a stored CAPTCHA whose expiry, its creation time plus the
\* configured TTL, has passed returns false even for the right answer, and
\* removes the entry.
C5_ValidateExpired == [][C5Step]_vars

\* the right answer arrived after the expiry, was refused, and the entry is gone
C5_Witness ==
    /\ capRes.op = "Validate"
    /\ capRes.id \in DOMAIN capHist
    /\ capHist[capRes.id].fate = "expired"
    /\ capHist[capRes.id].good
    /\ capRes.solution = capHist[capRes.id].Solution
    /\ ~capRes.valid
    /\ capRes.id \notin DOMAIN captchas

-----------------------------------------------------------------------------
(* Claims on the abuse detector *)

HourlyReason == "Too many requests from this IP (hourly limit exceeded)"
DailyReason == "Daily request limit exceeded"
IPBlockReason == "IP address is temporarily blocked"
AddressBlockReason == "Address is temporarily blocked"
SubnetReason == "Multiple requests detected from your subnet"
EarlierReasons == {IPBlockReason, AddressBlockReason, HourlyReason, DailyReason}

\* the step is a call of CheckRequest(ip, address)
IsCheck(ip, address) ==
    /\ adRes'.op = "CheckRequest"
    /\ adRes'.ip = ip
    /\ adRes'.address = address
    /\ CheckRequest(ip, address)

\* C6: with MaxAttemptsPerHour = N below MaxAttemptsPerDay, subnet checking
\* off and no manual block, the N CheckRequest+RecordAttempt cycles a new IP
\* makes within one hour are all allowed, and the CheckRequest after them,
\* within that hour, is denied with the hourly reason, whatever the success
\* flags that were recorded.
C6Step ==
    \A ip \in peers, a \in Addresses :
        (/\ IsCheck(ip, a)
         /\ config.MaxAttemptsPerHour < config.MaxAttemptsPerDay
         /\ ~config.SubnetCheckEnabled
         /\ \/ cyc[ip].ph = "unseen"
            \/ cyc[ip].ph = "recorded" /\ now - cyc[ip].t0 < Hour)
        => IF cyc[ip].n < config.MaxAttemptsPerHour
           THEN adRes'.Allowed
           ELSE ~adRes'.Allowed /\ adRes'.Reason = HourlyReason

C6_HourlyCap == [][C6Step]_vars

\* N cycles went through and the next request was refused
C6_Witness ==
    \E ip \in peers :
        /\ cyc[ip].ph = "capped"
        /\ cyc[ip].n = config.MaxAttemptsPerHour
        /\ cyc[ip].n >= 2
        /\ adRes.op = "CheckRequest" /\ adRes.ip = ip
        /\ ~adRes.Allowed /\ adRes.Reason = HourlyReason
        /\ ipAttempts[ip].FailedCount > 0

\* C7: CheckRequest denies with 'IP address is temporarily blocked' whenever
\* the IP has a block that expires in the future, and otherwise with 'Address
\* is temporarily blocked' whenever the address has one; the denial reports
\* that block's expiry, the IP block wins when both are blocked, and neither
\* denial creates or changes an attempt tracker.
C7Step ==
    \A ip \in peers, a \in Addresses :
        IsCheck(ip, a) =>
            LET ipBlocked == IF ip \in DOMAIN blockedIPs
                             THEN now < blockedIPs[ip] ELSE FALSE
                addrBlocked == IF a \in DOMAIN blockedAddrs
                               THEN now < blockedAddrs[a] ELSE FALSE
            IN  /\ ipBlocked =>
                      /\ ~adRes'.Allowed
                      /\ adRes'.Reason = IPBlockReason
                      /\ adRes'.BlockedUntil = blockedIPs[ip]
                      /\ UNCHANGED <<ipAttempts, addressAttempts>>
                /\ (~ipBlocked /\ addrBlocked) =>
                      /\ ~adRes'.Allowed
                      /\ adRes'.Reason = AddressBlockReason
                      /\ adRes'.BlockedUntil = blockedAddrs[a]
                      /\ UNCHANGED <<ipAttempts, addressAttempts>>

C7_BlockDenials == [][C7Step]_vars

\* a request whose IP and address are both blocked was refused for its IP
C7_Witness ==
    /\ adRes.op = "CheckRequest"
    /\ adRes.Reason = IPBlockReason
    /\ adRes.ip \in DOMAIN blockedIPs
    /\ adRes.BlockedUntil = blockedIPs[adRes.ip]
    /\ adRes.address \in DOMAIN blockedAddrs
    /\ now < blockedAddrs[adRes.address]
    /\ adRes.ip \in DOMAIN ipAttempts

\* a cap denial records a block on the IP that expires BlockDuration later
CapDenialBlocks(ip) ==
    adRes'.Reason \in CapReasons =>
        /\ ~adRes'.Allowed
        /\ ip \in DOMAIN blockedIPs'
        /\ blockedIPs'[ip] = now + config.BlockDuration

\* the request is refused for the block the cap denial recorded
RefusedForCapBlock(ip) ==
    /\ ~adRes'.Allowed
    /\ adRes'.Reason = IPBlockReason
    /\ adRes'.BlockedUntil = capBlock[ip].until

\* C8 as stated: after a denial for the hourly or the daily cap, which records
\* a block expiring BlockDuration later, every CheckRequest for the IP before
\* that expiry, for any address, is denied with 'IP address is temporarily
\* blocked' and reports that expiry.
C8StatedStep ==
    \A ip \in peers, a \in Addresses :
        IsCheck(ip, a) =>
            /\ CapDenialBlocks(ip)
            /\ (IF ip \in DOMAIN capBlock THEN now < capBlock[ip].until ELSE FALSE)
                 => RefusedForCapBlock(ip)

C8_AsStated == [][C8StatedStep]_vars

\* C8: after a denial for the hourly or the daily cap, which records a block
\* expiring BlockDuration later, every CheckRequest for the IP before that
\* expiry, for any address, is denied with 'IP address is temporarily blocked'
\* and reports that expiry, as long as neither UnblockIP nor BlockIP was
\* called for the IP since the denial.
C8Step ==
    \A ip \in peers, a \in Addresses :
        IsCheck(ip, a) =>
            /\ CapDenialBlocks(ip)
            /\ (IF ip \in DOMAIN capBlock
                 THEN now < capBlock[ip].until /\ ~capBlock[ip].touched ELSE FALSE)
                 => RefusedForCapBlock(ip)

C8_CapBlock == [][C8Step]_vars

\* some time after a cap denial, a request of the IP was refused for the block
C8_Witness ==
    /\ adRes.op = "CheckRequest"
    /\ adRes.Reason = IPBlockReason
    /\ adRes.ip \in DOMAIN capBlock
    /\ ~capBlock[adRes.ip].touched
    /\ adRes.BlockedUntil = capBlock[adRes.ip].until
    /\ now > capBlock[adRes.ip].until - config.BlockDuration
    /\ now < capBlock[adRes.ip].until

\* the tracked IP lies in the requester's /24 (IPv4) or /64 (IPv6) network
SameNetwork(requester, tracked) ==
    LET r == ParseIP(requester)
        t == ParseIP(tracked)
    IN  IF To4(r) # NilIP
        THEN To4(t) # NilIP /\ SubSeq(To4(t), 1, 3) = SubSeq(To4(r), 1, 3)
        ELSE /\ Len(t) = 16
             /\ To4(t) = NilIP
             /\ SubSeq(t, 1, 8) = SubSeq(r, 1, 8)

\* C9: with subnet checking enabled, a CheckRequest for a parseable IP that no
\* earlier step denied is denied with 'Multiple requests detected from your
\* subnet' exactly when more than five tracked IPs, the requester's own
\* tracker included, lie in the requester's /24 (IPv4) or /64 (IPv6) network;
\* the denial adds 30 to the RiskScore and records no block on the IP.
C9Step ==
    \A ip \in peers, a \in Addresses :
        (/\ IsCheck(ip, a)
         /\ config.SubnetCheckEnabled
         /\ ParseIP(ip) # NilIP
         /\ adRes'.Reason \notin EarlierReasons)
        => /\ (~adRes'.Allowed /\ adRes'.Reason = SubnetReason)
              <=> Cardinality({t \in DOMAIN ipAttempts' : SameNetwork(ip, t)}) > 5
           /\ adRes'.Reason = SubnetReason =>
                 /\ adRes'.RiskScore = calculateRiskScore(ipAttempts'[ip]) + 30
                 /\ ip \notin DOMAIN blockedIPs'

C9_SubnetDenial == [][C9Step]_vars

\* the requester's address lies in 10.0.0.0/8, 172.16.0.0/12 or 192.168.0.0/16
InPrivateRange(ip) ==
    LET p == To4(ParseIP(ip))
    IN  IF p = NilIP THEN FALSE
        ELSE \/ p[1] = 10
             \/ p[1] = 172 /\ p[2] \in 16 .. 31
             \/ p[1] = 192 /\ p[2] = 168

\* C10: with VPN detection enabled, a CheckRequest for an IP inside 10.0.0.0/8,
\* 172.16.0.0/12 or 192.168.0.0/16 that no earlier step denied is allowed,
\* with a RiskScore of at least 20 and a RecommendedDelay of at least 30
\* seconds; no request is denied but by a block, a cap or the subnet check.
C10Step ==
    \A ip \in peers, a \in Addresses :
        IsCheck(ip, a) =>
            /\ (/\ config.VPNDetectionEnabled
                 /\ InPrivateRange(ip)
                 /\ adRes'.Reason \notin EarlierReasons \cup {SubnetReason})
                => /\ adRes'.Allowed
                   /\ adRes'.RiskScore >= 20
                   /\ adRes'.RecommendedDelay >= 30 * Second
            /\ ~adRes'.Allowed => adRes'.Reason \in EarlierReasons \cup {SubnetReason}

C10_VPNSoftFriction == [][C10Step]_vars

\* a request from 172.16.0.0/12 was let through with the score and the delay
C10_Witness ==
    /\ adRes.op = "CheckRequest"
    /\ config.VPNDetectionEnabled
    /\ adRes.ip = Dotted(172, 31, 0, 1)
    /\ adRes.Allowed
    /\ adRes.RiskScore = 20
    /\ adRes.RecommendedDelay = 30 * Second

\* C11: BlockIP(ip, d) records a block that expires d later, or BlockDuration
\* later when d = 0; until that expiry the block stays, unless UnblockIP(ip)
\* removes it or BlockIP(ip, _) replaces it, and every CheckRequest for ip is
\* denied for it.  After UnblockIP(ip), or once the expiry has passed,
\* CheckRequest does not deny with 'IP address is temporarily blocked', and
\* a CheckRequest that finds the expired entry deletes it.  The same holds
\* for BlockAddress, UnblockAddress and the address reason.
C11Step ==
    /\ \A ip \in peers :
        LET entry == ip \in DOMAIN blockedIPs
            active == IF entry THEN now < blockedIPs[ip] ELSE FALSE
        IN  /\ \A d \in BlockDurations :
                  BlockIP(ip, d) =>
                      /\ ip \in DOMAIN blockedIPs'
                      /\ blockedIPs'[ip] = now + (IF d = 0 THEN config.BlockDuration
                                                  ELSE d)
            /\ UnblockIP(ip) => ip \notin DOMAIN blockedIPs'
            /\ (active /\ ~UnblockIP(ip) /\ ~(\E d \in BlockDurations : BlockIP(ip, d)))
                  => /\ ip \in DOMAIN blockedIPs'
                     /\ blockedIPs'[ip] = blockedIPs[ip]
            /\ \A a \in Addresses :
                  IsCheck(ip, a) =>
                      IF active
                      THEN ~adRes'.Allowed /\ adRes'.Reason = IPBlockReason
                      ELSE /\ adRes'.Reason # IPBlockReason
                           /\ entry => ip \notin DOMAIN blockedIPs'
    /\ \A a \in Addresses :
        LET entry == a \in DOMAIN blockedAddrs
            active == IF entry THEN now < blockedAddrs[a] ELSE FALSE
        IN  /\ \A d \in BlockDurations :
                  BlockAddress(a, d) =>
                      /\ a \in DOMAIN blockedAddrs'
                      /\ blockedAddrs'[a] = now + (IF d = 0 THEN config.BlockDuration
                                                   ELSE d)
            /\ UnblockAddress(a) => a \notin DOMAIN blockedAddrs'
            /\ (/\ active
                 /\ ~UnblockAddress(a)
                 /\ ~(\E d \in BlockDurations : BlockAddress(a, d)))
                  => /\ a \in DOMAIN blockedAddrs'
                     /\ blockedAddrs'[a] = blockedAddrs[a]
            /\ \A ip \in peers :
                  IsCheck(ip, a) =>
                      LET ipActive == IF ip \in DOMAIN blockedIPs
                                      THEN now < blockedIPs[ip] ELSE FALSE
                      IN  IF active
                          THEN /\ ~adRes'.Allowed
                               /\ ipActive \/ adRes'.Reason = AddressBlockReason
                          ELSE /\ adRes'.Reason # AddressBlockReason
                               /\ (entry /\ ~ipActive) => a \notin DOMAIN blockedAddrs'

C11_ManualBlocks == [][C11Step]_vars

\* a request was refused for a block that BlockIP(ip, 0) set after the start
C11_Witness ==
    /\ adRes.op = "CheckRequest"
    /\ ~adRes.Allowed
    /\ adRes.Reason = IPBlockReason
    /\ now > 0
    /\ adRes.BlockedUntil = now + config.BlockDuration
    /\ adRes.ip \in DOMAIN blockedIPs
    /\ blockedIPs[adRes.ip] = adRes.BlockedUntil

-----------------------------------------------------------------------------
(* Claims on the adaptive difficulty controller *)

\* the step is a call of UpdateLoad(load)
IsUpdateLoad(load) ==
    /\ tuned'
    /\ adaptive'.currentLoad = load
    /\ UpdateLoad(load)

\* the difficulty lies within [b-1, b+2]
InBand(d) == d \in (adaptive.baseDifficulty - 1) .. (adaptive.baseDifficulty + 2)

\* C12: with a baseline load of 50 and a base difficulty b, UpdateLoad(load)
\* sets the engine's difficulty to b+2 when load > 75, to b+1 when
\* 60 < load <= 75, to b-1 when load < 25 and to b otherwise; b = 3 with a
\* load of 100 gives at least 4, and with a load of 10 at most 3.
C12Step ==
    \A load \in Loads :
        (IsUpdateLoad(load) /\ adaptive.baselineLoad = 50) =>
            LET b == adaptive.baseDifficulty
            IN  /\ difficulty' = IF load > 75 THEN b + 2
                                 ELSE IF load > 60 THEN b + 1
                                 ELSE IF load < 25 THEN b - 1
                                 ELSE b
                /\ (b = 3 /\ load = 100) => difficulty' >= 4
                /\ (b = 3 /\ load = 10) => difficulty' <= 3

C12_UpdateLoad == [][C12Step]_vars

\* a load at the upper threshold was fed to a controller of base 3
C12_Witness ==
    /\ tuned
    /\ adaptive.baseDifficulty = 3
    /\ adaptive.currentLoad = 75
    /\ difficulty = 4

\* C13: after UpdateLoad calls on a controller of base difficulty b, the
\* difficulty GetCurrentDifficulty reports, and the one a newly issued
\* challenge gets, lies within [b-1, b+2]; UpdateLoad can always be called
\* and leaves the engine with a difficulty.
C13Step ==
    /\ tuned' => GetCurrentDifficulty' \in Int /\ InBand(GetCurrentDifficulty')
    /\ \A id \in DOMAIN challenges' \ DOMAIN challenges :
          tuned => InBand(challenges'[id].Difficulty)
    /\ \A load \in Loads : ENABLED UpdateLoad(load)

C13_DifficultyBand == [][C13Step]_vars

\* an engine that started outside the band issued a challenge at b-1
C13_Witness ==
    /\ tuned
    /\ adaptive.baseDifficulty = 3
    /\ powRes.op = "GenerateChallenge"
    /\ powRes.id \in DOMAIN challenges
    /\ challenges[powRes.id].Difficulty = 2
    /\ GetCurrentDifficulty = 2

\* C14: SetDifficulty, called directly or through UpdateLoad, changes the
\* difficulty of the challenges issued afterwards only: a challenge in the
\* store keeps the Difficulty it was issued with, and Verify checks a
\* candidate against the challenge's own Difficulty, not the engine's.
C14Step ==
    /\ \A id \in DOMAIN challenges \cap DOMAIN challenges' :
          challenges'[id].Difficulty = challenges[id].Difficulty
    /\ \A id \in DOMAIN challenges' \ DOMAIN challenges :
          challenges'[id].Difficulty = difficulty
    /\ difficulty' # difficulty => challenges' = challenges
    /\ \A id \in DOMAIN challenges :
          (VerifyOnStored(id) /\ ~After(now, challenges[id].ExpiresAt)) =>
              powRes'.valid = verifyHash(computeHash(challenges[id].Nonce,
                                                     powRes'.solution),
                                         challenges[id].Difficulty)

C14_StoredDifficulty == [][C14Step]_vars

\* a candidate good enough for the engine's difficulty, lowered since, was
\* turned down for a challenge issued at a higher one
C14_Witness ==
    /\ powRes.op = "Verify"
    /\ ~powRes.valid
    /\ powRes.err = ""
    /\ powRes.id \in DOMAIN challenges
    /\ challenges[powRes.id].Difficulty > difficulty
    /\ verifyHash(computeHash(challenges[powRes.id].Nonce, powRes.solution),
                  difficulty)

-----------------------------------------------------------------------------
(* Claims on the rate limiter *)

\* the window the increments of a key leave open: its first increment and
\* their number, a window being closed one window duration after its first
RECURSIVE OpenWindow(_, _, _)
OpenWindow(times, i, acc) ==
    IF i > Len(times) THEN acc
    ELSE OpenWindow(times, i + 1,
                    IF acc.n = 0 \/ times[i] >= acc.start + limits.window
                    THEN [start |-> times[i], n |-> 1]
                    ELSE [start |-> acc.start, n |-> acc.n + 1])

WindowOf(kind, id) == OpenWindow(LogOf(kind, id), 1, [start |-> 0, n |-> 0])

\* the increments made on the key in the current window
InWindow(kind, id) ==
    LET w == WindowOf(kind, id)
    IN  IF w.n > 0 /\ now < w.start + limits.window THEN w.n ELSE 0

\* the step is a call of the limiter on the key
IsLimiterCall(op, kind, id) ==
    /\ rlRes'.op = op
    /\ rlRes'.kind = kind
    /\ rlRes'.id = id

\* C15: with a limit N for a kind of key, a check of a key answers false
\* while fewer than N increments of the key were made in the current window
\* and true once N were made; a check changes no counter, and an increment
\* of one key changes the count and the answer of no other key.
C15Step ==
    \A kind \in Kinds : \A id \in LimiterIDs[kind] :
        /\ IsLimiterCall("Check", kind, id) =>
              /\ counters' = counters
              /\ rlRes'.err = NoErr =>
                    rlRes'.limited = (InWindow(kind, id) >= LimitOf(kind))
        /\ IsLimiterCall("Increment", kind, id) =>
              \A kind2 \in Kinds : \A id2 \in LimiterIDs[kind2] :
                  (kind2 # kind \/ id2 # id) =>
                      /\ GetCurrentCount(kind2, id2)' = GetCurrentCount(kind2, id2)
                      /\ CheckedLimit(kind2, id2)' = CheckedLimit(kind2, id2)

C15_Limits == [][C15Step]_vars

\* the second of two IPs is limited after its two increments, the first one,
\* never incremented, is not
C15_Witness ==
    /\ rlRes.op = "Check"
    /\ rlRes.kind = "ip"
    /\ rlRes.limited
    /\ limits.per_ip = 2
    /\ Len(LogOf("ip", rlRes.id)) = 2
    /\ \E ip \in LimiterIDs["ip"] :
          /\ LogOf("ip", ip) = << >>
          /\ ~CheckedLimit("ip", ip).limited

\* C16: the window of a counter is fixed and starts at the first increment:
\* the key expires one window duration after it, a later increment in the
\* window leaves the expiry as it is, and once the window is over a check of
\* the key answers false again with no reset having been called.
C16Step ==
    \A kind \in Kinds : \A id \in LimiterIDs[kind] :
        /\ (IsLimiterCall("Increment", kind, id) /\ rlRes'.err = NoErr) =>
              /\ id \in DOMAIN counters'[kind]
              /\ IF id \in DOMAIN counters[kind]
                 THEN counters'[kind][id].expiresAt = counters[kind][id].expiresAt
                 ELSE /\ counters'[kind][id].expiresAt = now + limits.window
                      /\ GetRemainingTime(kind, id)' = limits.window
        /\ id \in DOMAIN counters'[kind] =>
              /\ WindowOf(kind, id)'.n > 0
              /\ counters'[kind][id].expiresAt
                    = WindowOf(kind, id)'.start + limits.window
              /\ now' < counters'[kind][id].expiresAt
        /\ ( /\ IsLimiterCall("Check", kind, id)
             /\ rlRes'.err = NoErr
             /\ WindowOf(kind, id).n > 0
             /\ now >= WindowOf(kind, id).start + limits.window ) =>
              ~rlRes'.limited

C16_FixedWindow == [][C16Step]_vars

\* two increments at different instants of one window, and a check that
\* answers false one window after the first of them
C16_Witness ==
    /\ rlRes.op = "Check"
    /\ rlRes.kind = "ip"
    /\ rlRes.err = NoErr
    /\ ~rlRes.limited
    /\ limits.per_ip = 2
    /\ LogOf("ip", rlRes.id) = <<0, 1>>
    /\ now = limits.window

-----------------------------------------------------------------------------
(* Claims on the token request handler *)

\* the SendTokens calls that succeeded for a recipient, and from an IP
SendsTo(address) ==
    Cardinality({r \in DOMAIN sent : sent[r].ok /\ sent[r].Recipient = address})
SendsFrom(ip) ==
    Cardinality({r \in DOMAIN sent : sent[r].ok /\ sent[r].IPAddress = ip})

\* C17: within one window of the limiter the successful sends to one address
\* never exceed the per-address limit, and those from one IP never exceed
\* the per-IP limit, however concurrent calls of RequestTokens interleave.
C17_SendsWithinLimits ==
    /\ \A address \in HandlerAddresses : SendsTo(address) <= limits.per_address
    /\ \A ip \in HandlerIPs : SendsFrom(ip) <= limits.per_ip

\* the order of a call's steps
Follows ==
    {<<"idle", "checkIP">>, <<"checkIP", "checkAddress">>,
     <<"checkAddress", "send">>, <<"send", "incrementIP">>,
     <<"incrementIP", "incrementAddress">>, <<"incrementAddress", "done">>,
     <<"idle", "done">>, <<"checkIP", "done">>, <<"checkAddress", "done">>,
     <<"send", "done">>}

ErrorStatuses ==
    {StatusBadRequest, StatusForbidden, StatusTooManyRequests,
     StatusInternalServerError, StatusServiceUnavailable}

\* C18: RequestTokens calls SendTokens only when every gate has passed: the
\* body and the address are valid, the address and the IP are allowed, the
\* captcha passed when one is required, the limiter and the database are
\* there, both limit checks answered not limited without error, no request
\* of the address was found in the last 24 hours, and the balance is below
\* the cap when there is one; a call that does not get that far is answered
\* 400, 403, 429, 500 or 503 and sends nothing.
C18Step ==
    \A r \in DOMAIN reqs :
        LET a == reqs[r]
            b == reqs'[r]
        IN  /\ b.pc # a.pc => <<a.pc, b.pc>> \in Follows
            /\ (a.pc = "idle" /\ b.pc = "checkIP") =>
                  /\ b.in.body
                  /\ ValidateAddress(b.in.address) = NoErr
                  /\ addressAllowed(b.in.address, handler.cfg.AllowedAddresses)
                  /\ ipAllowed(b.in.ip, handler.cfg.AllowedIPs)
                  /\ handler.cfg.RequireCaptcha =>
                        (~handler.cfg.TurnstileSecret \/ b.in.captcha)
                  /\ handler.rateLimiter # "nil"
                  /\ handler.db
            /\ (a.pc = "checkIP" /\ b.pc = "checkAddress") =>
                  /\ handler.rateLimiter = "redis"
                  /\ storeUp
                  /\ GetCurrentCount("ip", a.in.ip) < limits.per_ip
            /\ (a.pc = "checkAddress" /\ b.pc = "send") =>
                  /\ handler.rateLimiter = "redis"
                  /\ storeUp
                  /\ GetCurrentCount("address", a.in.address) < limits.per_address
            /\ r \in DOMAIN sent' \ DOMAIN sent =>
                  /\ a.pc = "send"
                  /\ sent'[r].Recipient = a.in.address
                  /\ sent'[r].after.found # "rows"
                  /\ handler.cfg.MaxRecipientBalance > 0 =>
                        /\ ~sent'[r].after.balance.err
                        /\ sent'[r].after.balance.value
                              < handler.cfg.MaxRecipientBalance
            /\ (a.pc # "done" /\ b.pc = "done") =>
                  IF a.pc = "incrementAddress"
                  THEN b.status = StatusOK /\ r \in DOMAIN sent /\ sent[r].ok
                  ELSE /\ b.status \in ErrorStatuses
                       /\ r \in DOMAIN sent' => ~sent'[r].ok

C18_Gates == [][C18Step]_vars

\* tokens went out under the configuration that has every gate
C18_Witness ==
    \E r \in DOMAIN reqs :
        /\ reqs[r].pc = "done"
        /\ reqs[r].status = StatusOK
        /\ handler.cfg.RequireCaptcha
        /\ handler.cfg.MaxRecipientBalance > 0
        /\ Len(handler.cfg.AllowedIPs) > 0
        /\ r \in DOMAIN sent
        /\ sent[r].ok

\* C19: while the counter store cannot be reached a limit check reports an
\* error, which neither answer of a check that succeeds carries, and
\* RequestTokens then answers 500 and sends nothing: a failure of the store
\* never passes for not limited.
C19Step ==
    /\ \A kind \in Kinds :
         \A id \in IF kind = "ip" THEN HandlerIPs ELSE HandlerAddresses :
             (CheckedLimit(kind, id).err # NoErr) <=> ~storeUp
    /\ \A r \in DOMAIN reqs :
         ( /\ handler.rateLimiter = "redis"
           /\ ~storeUp
           /\ reqs[r].pc \in {"checkIP", "checkAddress"}
           /\ reqs'[r] # reqs[r] ) =>
             /\ reqs'[r] = Answered(reqs[r].in, Answer(StatusInternalServerError,
                                                        "Internal server error"))
             /\ sent' = sent
             /\ r \notin DOMAIN sent

C19_StoreFailure == [][C19Step]_vars

\* a call was answered 500 for a check that failed, and sent nothing
C19_Witness ==
    \E r \in DOMAIN reqs :
        /\ reqs[r].pc = "done"
        /\ reqs[r].status = StatusInternalServerError
        /\ reqs[r].error = "Internal server error"
        /\ handler.rateLimiter = "redis"
        /\ ~storeUp
        /\ r \notin DOMAIN sent

\* C20: when no counter store is configured or reachable at start-up, an
\* in-memory substitute enforces the limits: a request is not turned away
\* for the limiter that is missing.
C20_InMemorySubstitute ==
    \A r \in DOMAIN reqs :
        ( /\ handler.rateLimiter # "redis"
          /\ handler.db
          /\ reqs[r].pc = "done" ) =>
            /\ reqs[r].error # "Service dependencies not configured"
            /\ ~(reqs[r].status = StatusInternalServerError /\ reqs[r].error = "")

-----------------------------------------------------------------------------
(* Claims on the metrics tracker *)

\* what the history says was recorded since the last Reset
RecordedAddresses == {mtHist.requests[i].Address : i \in DOMAIN mtHist.requests}
ServedAddresses ==
    {mtHist.requests[i].Address :
        i \in {k \in DOMAIN mtHist.requests : mtHist.requests[k].Success}}
RecordedIPs ==
    {mtHist.requests[i].IP : i \in DOMAIN mtHist.requests}
    \cup {mtHist.blocked[i] : i \in DOMAIN mtHist.blocked}
Successes == {i \in DOMAIN mtHist.requests : mtHist.requests[i].Success}
Failures == {i \in DOMAIN mtHist.requests : ~mtHist.requests[i].Success}

\* C21: GetSummary reports TotalRequests = SuccessfulRequests + FailedRequests
\* = the number of RecordRequest calls since the last Reset, and
\* BlockedRequests = the number of RecordBlocked calls since the last Reset;
\* a RecordBlocked call changes nothing of the tracker but the blocked counter
\* and the set of unique IPs.
C21Step ==
    /\ mtRes'.op = "GetSummary" =>
          /\ mtRes'.TotalRequests
                = mtRes'.SuccessfulRequests + mtRes'.FailedRequests
          /\ mtRes'.TotalRequests = mtHist'.earlier + Len(mtHist'.requests)
          /\ mtRes'.BlockedRequests = Len(mtHist'.blocked)
    /\ Len(mtHist'.blocked) = Len(mtHist.blocked) + 1 =>
          metricsTracker' =
              [metricsTracker EXCEPT
                  !.blockedRequests = metricsTracker'.blockedRequests,
                  !.uniqueIPs = metricsTracker'.uniqueIPs]

C21_Totals == [][C21Step]_vars

\* a summary after a successful request, a failed one and a blocked one
C21_Witness ==
    /\ mtRes.op = "GetSummary"
    /\ Successes # {}
    /\ Failures # {}
    /\ mtHist.blocked # << >>
    /\ mtRes.TotalRequests = 2
    /\ mtRes.BlockedRequests = 1

\* C22 (as stated): GetSummary's UniqueAddresses is the number of distinct
\* addresses among all recorded requests, successful or failed, and UniqueIPs
\* the number of distinct IPs among all recorded and blocked requests.
C22_AsStated ==
    mtRes.op = "GetSummary" =>
        /\ mtRes.UniqueAddresses = Cardinality(RecordedAddresses)
        /\ mtRes.UniqueIPs = Cardinality(RecordedIPs)

\* C22: GetSummary's UniqueAddresses is the number of distinct addresses among
\* the successful requests recorded since the last Reset, and UniqueIPs the
\* number of distinct IPs among all recorded and blocked requests since then.
C22_UniqueCounts ==
    mtRes.op = "GetSummary" =>
        /\ mtRes.UniqueAddresses = Cardinality(ServedAddresses)
        /\ mtRes.UniqueIPs = Cardinality(RecordedIPs)

\* a summary after requests for two addresses, one of which only failed, and
\* a blocked request from an IP that no request came from
C22_Witness ==
    /\ mtRes.op = "GetSummary"
    /\ Cardinality(RecordedAddresses) = 2
    /\ mtRes.UniqueAddresses = 1
    /\ \E i \in DOMAIN mtHist.blocked :
          \A k \in DOMAIN mtHist.requests : mtHist.requests[k].IP # mtHist.blocked[i]
    /\ mtRes.UniqueIPs = 2

\* the place of the first successful request for an address in the history
FirstRecorded(address) ==
    CHOOSE i \in Successes :
        /\ mtHist.requests[i].Address = address
        /\ \A k \in Successes : mtHist.requests[k].Address = address => i <= k

\* the addresses a list of recipients names
Listed(top) == {top[i].Address : i \in DOMAIN top}

\* C23: GetSummary's TopRecipients holds at most 10 addresses in
\* non-increasing order of request count, no omitted address has a higher
\* count than a listed one, and addresses with equal counts appear in the
\* order in which they were first recorded.
C23_TopRecipients ==
    mtRes.op = "GetSummary" =>
        LET top == mtRes.TopRecipients
        IN  /\ Len(top) <= TopCount
            /\ \A i, j \in DOMAIN top :
                  i < j => top[i].RequestCount >= top[j].RequestCount
            /\ \A a \in DOMAIN metricsTracker.topRecipients \ Listed(top) :
                  \A i \in DOMAIN top :
                      top[i].RequestCount >= metricsTracker.topRecipients[a]
            /\ \A i, j \in DOMAIN top :
                  (i < j /\ top[i].RequestCount = top[j].RequestCount)
                      => FirstRecorded(top[i].Address) < FirstRecorded(top[j].Address)

\* the step is a RecordRequest call
IsRecordRequest == Len(mtHist'.requests) = Len(mtHist.requests) + 1

\* the response time the call recorded
Sample == mtHist'.requests[Len(mtHist'.requests)].ResponseTime

\* C24: after every RecordRequest the retained response-time series holds at
\* most 10,000 samples: when the append makes it longer than 10,000 it is cut
\* to exactly the most recent 1,000 samples in their recorded order, and
\* otherwise it is the previous series plus the new sample.
C24Step ==
    IsRecordRequest =>
        LET all == Append(metricsTracker.responseTimes, Sample)
            kept == metricsTracker'.responseTimes
        IN  /\ Len(kept) <= MaxSamples
            /\ IF Len(all) > MaxSamples
               THEN /\ Len(kept) = KeptSamples
                    /\ \A i \in 1..KeptSamples :
                          kept[i] = all[Len(all) - KeptSamples + i]
               ELSE kept = all

C24_SeriesCap == [][C24Step]_vars

\* the series was cut: 10,001 requests were recorded, the last 1,000 samples
\* are kept, the newest last
C24_Witness ==
    /\ mtHist.earlier + Len(mtHist.requests) = MaxSamples + 1
    /\ Len(metricsTracker.responseTimes) = KeptSamples
    /\ metricsTracker.responseTimes[KeptSamples]
          = mtHist.requests[Len(mtHist.requests)].ResponseTime
    /\ metricsTracker.responseTimes[1] = MaxSamples + 2 - KeptSamples

\* the sample that stands at place i, counted from 0, once s is sorted in
\* non-decreasing order
AtRank(s, i) ==
    CHOOSE v \in {s[k] : k \in DOMAIN s} :
        /\ Cardinality({k \in DOMAIN s : s[k] < v}) <= i
        /\ i < Cardinality({k \in DOMAIN s : s[k] <= v})

\* the whole part of percent hundredths of n, at most n - 1
Floor(n, percent) ==
    IF (n * percent) \div 100 > n - 1 THEN n - 1 ELSE (n * percent) \div 100

\* C25: GetPerformanceStats returns, for a retained buffer of n >= 1 samples,
\* the elements at indices floor(0.50 n), floor(0.95 n) and floor(0.99 n)
\* (each at most n-1) of the buffer sorted in non-decreasing order, reported
\* in whole milliseconds, leaves the buffer's own order unchanged, and
\* returns 0 for all three when the buffer is empty.
C25Step ==
    (mtRes'.op = "GetPerformanceStats" /\ mtRes' # mtRes) =>
        LET s == metricsTracker.responseTimes
            n == Len(s)
        IN  /\ metricsTracker'.responseTimes = s
            /\ mtRes'.total_samples = n
            /\ IF n = 0
               THEN /\ mtRes'.p50_response_time = 0
                    /\ mtRes'.p95_response_time = 0
                    /\ mtRes'.p99_response_time = 0
               ELSE /\ mtRes'.p50_response_time
                          = Milliseconds(AtRank(s, Floor(n, 50)))
                    /\ mtRes'.p95_response_time
                          = Milliseconds(AtRank(s, Floor(n, 95)))
                    /\ mtRes'.p99_response_time
                          = Milliseconds(AtRank(s, Floor(n, 99)))

-----------------------------------------------------------------------------
(* Claims on what callers can tell apart, and on concurrent callers *)

\* C26: Verify gives its caller the same outcome, result and error, for an
\* unknown id, for an expired id and for a wrong solution on a live id: every
\* Verify that does not succeed answers what a Verify on an unknown id answers.
C26_UniformOutcome ==
    (powRes.op = "Verify" /\ ~powRes.valid) => powRes.err = "challenge not found"

\* the calls on an id that have returned true
Winners(id) ==
    {t \in DOMAIN procs : procs[t].pc = "done" /\ procs[t].id = id /\ procs[t].valid}

\* C27: for any issued challenge and any interleaving of concurrent Verify
\* calls on its id, at most one call returns true.
C27_OneWinner == \A id \in 1..nextChallenge : Cardinality(Winners(id)) <= 1

\* the calls on an id that have compared their candidate with the solution
Comparers(id) ==
    {t \in DOMAIN procs : procs[t].pc # "idle" /\ procs[t].id = id /\ procs[t].compared}

\* C28: for any generated CAPTCHA and any interleaving of concurrent Validate
\* calls on its id, at most one call compares its candidate against the
\* stored solution, hence at most one call returns true, and a wrong guess
\* leaves no other call on the id to succeed.
C28_OneComparison ==
    \A id \in 1..nextCaptcha :
        /\ Cardinality(Comparers(id)) <= 1
        /\ Cardinality(Winners(id)) <= 1
        /\ (\E t \in Comparers(id) : ~procs[t].valid) => Winners(id) = {}

\* the tracker of an IP, once it has one
Tracked(ip) == ip \in DOMAIN ipAttempts

\* C29: when requests for one IP pass CheckRequest before the ones admitted
\* earlier have called RecordAttempt, the tracker's Count exceeds
\* MaxAttemptsPerHour by at most the number of requests that were in flight
\* at once minus one, and once the Count has reached the cap every
\* CheckRequest for that IP within the same window is denied.
C29Step ==
    \A ip \in peers :
        /\ (Tracked(ip) /\ cyc[ip].n >= 1) =>
              ipAttempts[ip].Count + Cardinality(InFlight(ip))
                  <= config.MaxAttemptsPerHour + cyc[ip].n - 1
        /\ \A a \in Addresses :
              (/\ IsCheck(ip, a)
               /\ Tracked(ip)
               /\ Sub(now, ipAttempts[ip].FirstAttempt) < Hour
               /\ ipAttempts[ip].Count >= config.MaxAttemptsPerHour)
              => ~adRes'.Allowed

Blockers(t) ==
    IF ~Running(t) THEN {}
    ELSE LET mutex == locks[Pending(t).mutex]
         IN  CASE Pending(t).kind = "Lock" /\ ~procs[t].pending ->
                      IF mutex.w = 0 THEN {} ELSE {mutex.w}
               [] Pending(t).kind = "Lock" /\ procs[t].pending -> mutex.readers
               [] Pending(t).kind = "RLock" ->
                      IF mutex.w = 0 THEN {} ELSE {mutex.w}
               [] OTHER -> {}

\* a set of goroutines each of which waits for goroutines of the set only
Deadlocked(waiting) ==
    /\ waiting # {}
    /\ \A t \in waiting : Blockers(t) # {} /\ Blockers(t) \subseteq waiting

\* C30: no interleaving of concurrent operations on the proof-of-work
\* engine, the difficulty controller, the CAPTCHA service and its store, the
\* abuse detector and the metrics tracker, with their background sweeps,
\* reaches a deadlock: no set of calls waits for locks in a cycle, UpdateLoad
\* (controller lock, then engine lock) and Generate (service lock, then store
\* lock) included.
C30_NoDeadlock == \A waiting \in SUBSET DOMAIN procs : ~Deadlocked(waiting)

\* UpdateLoad holds the controller's lock and waits for the engine's, which
\* another goroutine, itself able to go on, holds or has asked for
C30_Witness ==
    \E t, u \in DOMAIN procs :
        /\ Running(t) /\ procs[t].op = "UpdateLoad"
        /\ locks["AdaptiveDifficulty.mu"].w = t
        /\ Pending(t).mutex = "ProofOfWork.mu"
        /\ Blockers(t) = {u}
        /\ Running(u) /\ Blockers(u) = {}

-----------------------------------------------------------------------------
(* Claims on the detector's trackers over time *)

\* the attempts recorded for ip in the 24 hours up to now
RecordedInDay(ip) == {i \in 1 .. Len(cyc[ip].at) : Sub(now, cyc[ip].at[i]) <= Day}

\* C32: CheckRequest denies with "Daily request limit exceeded" only if the
\* IP recorded at least MaxAttemptsPerDay attempts, successful or failed, in
\* the preceding 24 hours; older attempts do not count.
C32_DailyCap ==
    (/\ adRes.op = "CheckRequest"
     /\ adRes.Reason = "Daily request limit exceeded")
        => Cardinality(RecordedInDay(adRes.ip)) >= config.MaxAttemptsPerDay

\* the keys that have a tracker before and after the step
Surviving(before, after) == DOMAIN before \cap DOMAIN after

\* the tracker's successful and failed counters have not gone down
Kept(before, after) ==
    /\ after.SuccessfulCount >= before.SuccessfulCount
    /\ after.FailedCount >= before.FailedCount

C31StatedStep ==
    /\ \A ip \in Surviving(ipAttempts, ipAttempts') :
         /\ Kept(ipAttempts[ip], ipAttempts'[ip])
         /\ ipAttempts'[ip].Count >= ipAttempts[ip].Count
    /\ \A a \in Surviving(addressAttempts, addressAttempts') :
         /\ Kept(addressAttempts[a], addressAttempts'[a])
         /\ addressAttempts'[a].Count >= addressAttempts[a].Count

\* C31 as stated: while a tracker exists, its Count, SuccessfulCount and
\* FailedCount never decrease across CheckRequest and RecordAttempt calls.
C31_AsStated == [][C31StatedStep]_vars

C31Step ==
    /\ \A ip \in Surviving(ipAttempts, ipAttempts') :
         /\ Kept(ipAttempts[ip], ipAttempts'[ip])
         /\ \/ ipAttempts'[ip].Count >= ipAttempts[ip].Count
            \/ /\ cyc'.op = "CheckRequest"
               /\ cyc'.ip = ip
               /\ now - ipAttempts[ip].FirstAttempt >= Hour
               /\ ipAttempts'[ip].Count = 0
    /\ \A a \in Surviving(addressAttempts, addressAttempts') :
         /\ Kept(addressAttempts[a], addressAttempts'[a])
         /\ addressAttempts'[a].Count >= addressAttempts[a].Count

\* C31: while a tracker exists, its SuccessfulCount and FailedCount never
\* decrease across CheckRequest and RecordAttempt calls, and its Count
\* decreases only when a CheckRequest for its IP finds the hourly window
\* elapsed and sets it to 0.
C31_Counters == [][C31Step]_vars

\* a CheckRequest has set the Count of a tracker with one failed attempt
\* back to 0
C31_Witness ==
    /\ cyc.op = "CheckRequest"
    /\ cyc.ip \in DOMAIN ipAttempts
    /\ ipAttempts[cyc.ip].Count = 0
    /\ ipAttempts[cyc.ip].FailedCount = 1
    /\ ipAttempts[cyc.ip].FirstAttempt = Hour

\* the step is a CheckRequest for an IP no block is on, whose tracker's
\* window began an hour ago or more
C33Case ==
    /\ cyc'.op = "CheckRequest"
    /\ cyc'.ip \in DOMAIN ipAttempts
    /\ ~ActiveBlock(blockedIPs, cyc'.ip)
    /\ now - ipAttempts[cyc'.ip].FirstAttempt >= Hour

C33Reset ==
    /\ cyc'.ip \in DOMAIN ipAttempts'
    /\ ipAttempts'[cyc'.ip].Count = 0
    /\ ipAttempts'[cyc'.ip].FirstAttempt = now
    /\ adRes'.Reason # "Too many requests from this IP (hourly limit exceeded)"
    /\ ipAttempts'[cyc'.ip].SuccessfulCount = ipAttempts[cyc'.ip].SuccessfulCount
    /\ ipAttempts'[cyc'.ip].FailedCount = ipAttempts[cyc'.ip].FailedCount
    /\ ipAttempts'[cyc'.ip].Addresses = ipAttempts[cyc'.ip].Addresses

\* C33 as stated: a CheckRequest for an unblocked IP whose tracker's
\* FirstAttempt is one hour old or more sets Count to 0 and FirstAttempt to
\* now, does not deny for the hourly cap, and leaves SuccessfulCount,
\* FailedCount and the address map as they were.
C33_AsStated == [][C33Case => C33Reset]_vars

\* C33: the same, for a request whose address has no active block either.
C33_HourlyReset ==
    [][(C33Case /\ ~ActiveBlock(blockedAddrs, cyc'.address)) => C33Reset]_vars

\* two attempts were recorded at 0, which is the hourly cap, and the check
\* an hour later has reset the window and let the request through
C33_Witness ==
    /\ cyc.op = "CheckRequest"
    /\ adRes.Allowed
    /\ now = Hour
    /\ cyc.ip \in DOMAIN ipAttempts
    /\ ipAttempts[cyc.ip].Count = 0
    /\ ipAttempts[cyc.ip].FirstAttempt = Hour
    /\ ipAttempts[cyc.ip].LastAttempt = 0
    /\ ipAttempts[cyc.ip].SuccessfulCount + ipAttempts[cyc.ip].FailedCount
         = config.MaxAttemptsPerHour

\* the sum of a tracker's per-address counts
RECURSIVE SumOver(_, _)
SumOver(counts, keys) ==
    IF keys = {} THEN 0
    ELSE LET key == CHOOSE k \in keys : TRUE
         IN  counts[key] + SumOver(counts, keys \ {key})

Balanced(tracker) ==
    /\ tracker.SuccessfulCount + tracker.FailedCount
         = SumOver(tracker.Addresses, DOMAIN tracker.Addresses)
    /\ tracker.Count <= tracker.SuccessfulCount + tracker.FailedCount

\* the counters of key, which are all 0 while it has no tracker
CountersOf(trackers, key) ==
    IF key \in DOMAIN trackers
    THEN <<trackers[key].Count, trackers[key].SuccessfulCount,
           trackers[key].FailedCount>>
    ELSE <<0, 0, 0>>

\* the step has raised Count and one of the two other counters of key by
\* one and has left every other key's tracker alone
RaisedOn(before, after, key, success) ==
    /\ DOMAIN after = DOMAIN before \cup {key}
    /\ CountersOf(after, key)[1] = CountersOf(before, key)[1] + 1
    /\ CountersOf(after, key)[2]
         = CountersOf(before, key)[2] + (IF success THEN 1 ELSE 0)
    /\ CountersOf(after, key)[3]
         = CountersOf(before, key)[3] + (IF success THEN 0 ELSE 1)
    /\ \A other \in DOMAIN before \ {key} : after[other] = before[other]

C40Step ==
    /\ cyc'.op = "RecordAttempt"
         => /\ RaisedOn(ipAttempts, ipAttempts', cyc'.ip, cyc'.success)
            /\ RaisedOn(addressAttempts, addressAttempts', cyc'.address,
                        cyc'.success)
            /\ blockedIPs' = blockedIPs
            /\ blockedAddrs' = blockedAddrs
    /\ cyc'.op = "CheckRequest"
         => /\ addressAttempts' = addressAttempts
            /\ \A ip \in DOMAIN ipAttempts' :
                 \A i \in 1 .. 3 :
                   CountersOf(ipAttempts', ip)[i] <= CountersOf(ipAttempts, ip)[i]
    /\ \A ip \in DOMAIN ipAttempts' : Balanced(ipAttempts'[ip])

\* C40: between sweeps every IP tracker has SuccessfulCount + FailedCount
\* equal to the sum of its per-address counts and Count at most that sum;
\* each RecordAttempt(ip, address, success) raises Count and exactly one of
\* SuccessfulCount and FailedCount by one on the tracker of ip and on the
\* tracker of address, and changes no other key's tracker and no block;
\* CheckRequest raises no counter.
C40_TrackerCounts == [][C40Step]_vars

\* a second attempt, failed, has been recorded on a tracker that had a
\* successful one, while the other peer has a tracker of its own
C40_Witness ==
    /\ cyc.op = "RecordAttempt"
    /\ ~cyc.success
    /\ ipAttempts[cyc.ip].Count = 2
    /\ ipAttempts[cyc.ip].SuccessfulCount = 1
    /\ ipAttempts[cyc.ip].FailedCount = 1
    /\ \E other \in DOMAIN ipAttempts \ {cyc.ip} : ipAttempts[other].Count = 1

\* the trackers and the blocks a sweep at this instant has to remove
Stale(trackers) ==
    {key \in DOMAIN trackers :
       \/ trackers[key].LastAttempt = ZeroTime
       \/ now - trackers[key].LastAttempt > Day}
Lapsed(blocked) == {key \in DOMAIN blocked : blocked[key] < now}

\* what a sweep makes of a map: the entries to remove are gone, the others
\* are as they were
SweptTo(before, after, gone) ==
    /\ DOMAIN after = DOMAIN before \ gone
    /\ \A key \in DOMAIN after : after[key] = before[key]

C37Step ==
    (~Swept /\ Swept')
        => /\ SweptTo(ipAttempts, ipAttempts', Stale(ipAttempts))
           /\ SweptTo(addressAttempts, addressAttempts', Stale(addressAttempts))
           /\ SweptTo(blockedIPs, blockedIPs', Lapsed(blockedIPs))
           /\ SweptTo(blockedAddrs, blockedAddrs', Lapsed(blockedAddrs))
           /\ \A key \in DOMAIN blockedIPs :
                ActiveBlock(blockedIPs, key) => key \in DOMAIN blockedIPs'
           /\ \A key \in DOMAIN blockedAddrs :
                ActiveBlock(blockedAddrs, key) => key \in DOMAIN blockedAddrs'

\* C37: each round of the detector's sweep removes exactly the IP and
\* address trackers whose last recorded attempt is more than 24 hours before
\* the sweep (a tracker with no recorded attempt counts as such) and exactly
\* the IP and address blocks whose expiry has passed; it removes no block
\* that is still active and changes no tracker it keeps.
C37_Sweep == [][C37Step]_vars

\* a sweep at 26 hours has removed the tracker of the address last recorded
\* at 0 and kept that of the address last recorded 24 hours before it
C37_Witness ==
    /\ Swept
    /\ adRes = NoAdRes
    /\ now = 26 * Hour
    /\ \E ip \in DOMAIN cyc : cyc[ip].at = <<0, 2 * Hour>>
    /\ DOMAIN addressAttempts = {"aura1y"}
    /\ addressAttempts["aura1y"].Count = 1
    /\ addressAttempts["aura1y"].LastAttempt = 2 * Hour

-----------------------------------------------------------------------------
(* Claims on the risk score and the recommended delay *)

BlockReasons == {"IP address is temporarily blocked", "Address is temporarily blocked"}
\* the tracker CheckRequest(ip, _) finds, or makes
Found(ip) == IF ip \in DOMAIN ipAttempts THEN ipAttempts[ip] ELSE NewTracker

Distinct(tracker) == Cardinality(DOMAIN tracker.Addresses)

\* the four signals on the tracker
Signals(tracker) ==
    (IF tracker.Count > config.SuspiciousThreshold THEN 20 ELSE 0)
    + (IF tracker.FailedCount > 2 * tracker.SuccessfulCount THEN 15 ELSE 0)
    + (IF Distinct(tracker) > 3 THEN 10 * (Distinct(tracker) - 3) ELSE 0)
    + (IF /\ tracker.LastAttempt # ZeroTime
          /\ now - tracker.LastAttempt < Minute
          /\ tracker.Count > 3
       THEN 25 ELSE 0)

VPNMatch(ip) == config.VPNDetectionEnabled /\ isLikelyVPN(ip)
Fanning(tracker) == Distinct(tracker) > config.SuspiciousThreshold

\* the step is a CheckRequest that no block has denied
Scored == adRes'.op = "CheckRequest" /\ adRes'.Reason \notin BlockReasons

\* no cap is reached and the subnet check is off: nothing but the score
\* could deny the request
OnlyScored(tracker) ==
    /\ ~(now - tracker.FirstAttempt < Hour
           /\ tracker.Count >= config.MaxAttemptsPerHour)
    /\ tracker.SuccessfulCount + tracker.FailedCount < config.MaxAttemptsPerDay
    /\ ~config.SubnetCheckEnabled

C34StatedStep ==
    Scored =>
      LET tracker == Found(adRes'.ip)
      IN  /\ adRes'.RiskScore >= 0
          /\ adRes'.RiskScore =
               Signals(tracker)
                 + (IF adRes'.Reason = SubnetReason THEN 30 ELSE 0)
                 + (IF VPNMatch(adRes'.ip) THEN 20 ELSE 0)
                 + (IF Fanning(tracker) THEN 25 ELSE 0)
          /\ OnlyScored(tracker) => adRes'.Allowed

\* C34 as stated: for a request that no block denies, the RiskScore is the
\* sum of the four signals on the IP's tracker plus 30 on a subnet denial,
\* 20 on a VPN match and 25 if the distinct addresses exceed
\* SuspiciousThreshold; it is never negative and no score by itself turns
\* Allowed to false.
C34_AsStated == [][C34StatedStep]_vars

C34Step ==
    Scored =>
      LET tracker == Found(adRes'.ip)
      IN  /\ adRes'.RiskScore >= 0
          /\ adRes'.RiskScore =
               Signals(tracker)
                 + (IF adRes'.Reason = SubnetReason THEN 30 ELSE 0)
                 + (IF adRes'.Allowed /\ VPNMatch(adRes'.ip) THEN 20 ELSE 0)
                 + (IF adRes'.Allowed /\ Fanning(tracker) THEN 25 ELSE 0)
          /\ OnlyScored(tracker) => adRes'.Allowed

\* C34: the same, with the 20 of the VPN match and the 25 of the address
\* count added on allowed results only: a request that a cap or the subnet
\* check denies carries the four signals, plus 30 on the subnet denial.
C34_RiskScore == [][C34Step]_vars

\* an allowed result that carries all four tracker signals and the 25 of
\* the address count
C34_Witness ==
    /\ adRes.op = "CheckRequest"
    /\ adRes.Allowed
    /\ adRes.RiskScore = 20 + 15 + 10 + 25 + 25

\* C35: for an allowed result RecommendedDelay is RiskScore seconds when
\* RiskScore > 50, and otherwise 30 seconds if the VPN heuristic matched and
\* zero if not; a score of exactly 50 does not bring the score's delay, and
\* above 50 the delay grows with the score.
C35_RecommendedDelay ==
    (adRes.op = "CheckRequest" /\ adRes.Allowed)
        => adRes.RecommendedDelay =
             IF adRes.RiskScore > 50 THEN adRes.RiskScore * Second
             ELSE IF VPNMatch(adRes.ip) THEN 30 * Second
             ELSE 0

\* an allowed result with a score of exactly 50 and no delay
C35_Witness ==
    /\ adRes.op = "CheckRequest"
    /\ adRes.Allowed
    /\ adRes.RiskScore = 50
    /\ adRes.RecommendedDelay = 0


-----------------------------------------------------------------------------
(* Claims on the expiry sweeps *)

\* the step is one round of the proof-of-work sweep, of the CAPTCHA sweep:
\* the only steps that leave the clock and the ids handed out alone and
\* blank the engine's last result
IsPowSweep ==
    /\ now' = now
    /\ powRes' = NoPowRes
    /\ capRes' = capRes
    /\ captchas' = captchas
IsCapSweep ==
    /\ now' = now
    /\ capRes' = NoCapRes
    /\ powRes' = powRes
    /\ challenges' = challenges

\* a round takes every entry that expired before now out of the store and
\* leaves every entry that expires after now as it was
SweptOf(store, after) ==
    \A id \in DOMAIN store :
        /\ Before(store[id].ExpiresAt, now) => id \notin DOMAIN after
        /\ After(store[id].ExpiresAt, now) =>
              id \in DOMAIN after /\ after[id] = store[id]

C36Step ==
    /\ IsPowSweep => SweptOf(challenges, challenges') /\ DOMAIN challenges' \subseteq DOMAIN challenges
    /\ IsCapSweep => SweptOf(captchas, captchas') /\ DOMAIN captchas' \subseteq DOMAIN captchas

\* no challenge stays in its store for ever: an id is in the store from its
\* issue to its removal and is never put back, so it is out of the store
\* again and again exactly if it is out of it some time after its issue
C36Gone ==
    /\ \A id \in 1 .. MaxChallenges : []<>(id \notin DOMAIN challenges)
    /\ \A id \in 1 .. MaxCaptchas : []<>(id \notin DOMAIN captchas)

\* C36: each round of the proof-of-work sweep and of the CAPTCHA sweep removes
\* every stored challenge that expired before the round's time and none that
\* expires after it; with the sweeps running every period, every challenge
\* issued is in the end out of its store, answered or not.
C36_Sweeps == [][C36Step]_vars /\ C36Gone

\* both sweeps have removed a challenge nobody answered after it expired; the
\* CAPTCHA sweep left the one that expires later in the store
C36_Witness ==
    /\ 1 \in DOMAIN powHist
    /\ powHist[1].fate = "open"
    /\ 1 \notin DOMAIN challenges
    /\ 1 \in DOMAIN capHist
    /\ capHist[1].fate = "open"
    /\ 1 \notin DOMAIN captchas
    /\ 2 \in DOMAIN captchas
    /\ After(captchas[2].ExpiresAt, now)
    /\ capRes = NoCapRes


-----------------------------------------------------------------------------
(* Claims on the handler's counters and on its history check *)

\* the keys the handler counts on
HandlerKeys == [ip |-> HandlerIPs, address |-> HandlerAddresses]

\* the step is call r's IncrementIPCounter, its IncrementAddressCounter
CountsIP(r) == reqs[r].pc = "incrementIP" /\ reqs'[r].pc = "incrementAddress"
CountsAddress(r) == reqs[r].pc = "incrementAddress" /\ reqs'[r].pc = "done"

\* the step raises the counter of the key by one where the store takes the
\* increment, and leaves every other counter as it was
Counts(kind, id) ==
    \A kind2 \in Kinds : \A id2 \in HandlerKeys[kind2] :
        GetCurrentCount(kind2, id2)' =
            IF kind2 = kind /\ id2 = id /\ storeUp
            THEN GetCurrentCount(kind2, id2) + 1
            ELSE GetCurrentCount(kind2, id2)

SendFailed == "Failed to send tokens. Please try again later."

\* C38: RequestTokens increments the IP counter and the address counter only
\* after SendTokens has succeeded, once each per successful request: a
\* counter moves only in the increment a call makes after its successful
\* send, by one, on the call's own IP and then on its own address, and each
\* call makes each increment once; a call rejected at a gate or whose send
\* failed makes neither and leaves every counter as it was.
C38Step ==
    /\ counters' # counters =>
          \E r \in DOMAIN reqs : CountsIP(r) \/ CountsAddress(r)
    /\ \A r \in DOMAIN reqs :
          /\ CountsIP(r) =>
                /\ r \in DOMAIN sent /\ sent[r].ok
                /\ Counts("ip", reqs[r].in.ip)
          /\ CountsAddress(r) =>
                /\ r \in DOMAIN sent /\ sent[r].ok
                /\ reqs'[r].status = StatusOK
                /\ Counts("address", reqs[r].in.address)
          /\ (r \in DOMAIN sent' /\ sent'[r].ok /\ reqs[r].pc = "send") =>
                reqs'[r].pc = "incrementIP"
          /\ reqs[r].pc \in {"incrementAddress", "done"} =>
                reqs'[r].pc \notin {"send", "incrementIP"}
          /\ reqs[r].pc = "done" => reqs'[r] = reqs[r]
          /\ (reqs[r].pc # "done" /\ reqs'[r].pc = "done"
                /\ reqs'[r].status # StatusOK) =>
                /\ reqs[r].pc \notin {"incrementIP", "incrementAddress"}
                /\ counters' = counters

C38_Increments == [][C38Step]_vars

\* one call sent its tokens and counted once on its IP and on its address;
\* another, whose send failed, left the counters of its own keys at nothing
C38_Witness ==
    \E r, q \in DOMAIN reqs :
        /\ reqs[r].pc = "done"
        /\ reqs[r].status = StatusOK
        /\ GetCurrentCount("ip", reqs[r].in.ip) = 1
        /\ GetCurrentCount("address", reqs[r].in.address) = 1
        /\ reqs[q].pc = "done"
        /\ reqs[q].error = SendFailed
        /\ GetCurrentCount("ip", reqs[q].in.ip) = 0
        /\ GetCurrentCount("address", reqs[q].in.address) = 0


HistoryRejected == "This address has already received tokens in the last 24 hours."

\* C39: RequestTokens answers 429 with the history check's message only when
\* a send to that address succeeded within the last 24 hours: an address
\* whose only earlier request failed at the broadcast is not rejected by the
\* history check when it retries.
C39_HistoryCheck ==
    \A r \in DOMAIN reqs :
        (reqs[r].pc = "done" /\ reqs[r].error = HistoryRejected) =>
            \E q \in DOMAIN sent :
                sent[q].ok /\ sent[q].Recipient = reqs[r].in.address

=============================================================================
